---- MODULE Spec2Model ----
(***************************************************************************)
(* Command plane of the blast audio engine: the REPL thread parses a line  *)
(* against the engine-state mirror (CmdProcessor / EngineState), pushes    *)
(* the resulting Command through the single-producer/single-consumer ring  *)
(* (CmdQueue), and the audio loop pops and applies it to the Conductor.    *)
(*                                                                         *)
(* Indices are 0-based as in the source; a Vec is a sequence and element i *)
(* of a Vec is s[i + 1].  A HashMap is a function whose domain is the set  *)
(* of its keys.  An Rc<RefCell<TempoState>> is an id into conductor.heap;  *)
(* two holders share a TempoState exactly when they hold the same id.      *)
(* Atomic loads and stores are sequentially consistent steps.              *)
(***************************************************************************)
EXTENDS Integers, Sequences, FiniteSets, TLC

VARIABLES
    es,         \* CmdProcessor.engine_state: the mirror (voices, groups, tempo_cons)
    conductor,  \* Conductor: voices, groups, tempo_cons, heap of TempoStates
    buf,        \* CmdQueue.buf: slot index -> Option<Command>
    head,       \* CmdQueue.head
    tail,       \* CmdQueue.tail
    p_pc,       \* REPL thread position: "idle", "push_read", "push_write", "push_publish"
    p_cmd,      \* the Command being pushed
    p_head,     \* try_push local `head`
    p_tail,     \* try_push local `tail`
    c_pc,       \* audio loop position: "top", "pop_read", "pop_take", "pop_publish",
                \*                      "apply", "mix", "exit"
    c_head,     \* try_pop local `head`
    c_tail,     \* try_pop local `tail`
    c_cmd,      \* try_pop local `cmd` / the command handed to Conductor::apply
    term,       \* TERM_RECEIVED
    panicked,   \* the audio thread panicked (unwrap on None, index out of bounds)
    pushed,     \* history: commands accepted by try_push, in order
    applied,    \* history: commands handed to Conductor::apply, in order
    last,       \* history: what the last Enter did: parse result, push result
    clean       \* history: every line so far was parsed Ok and accepted by try_push

vars == <<es, conductor, buf, head, tail, p_pc, p_cmd, p_head, p_tail,
          c_pc, c_head, c_tail, c_cmd, term, panicked, pushed, applied, last, clean>>

----------------------------------------------------------------------------
(* Bounds *)

QueueCap == 3       \* slots of the ring (the program builds it with 256)
MaxPush == 4        \* commands accepted by try_push in one behaviour of SpecQ
MaxPushSys == 3     \* the same, in one behaviour of Spec
MaxPushCtl == 3     \* the same, in one behaviour of SpecCtl
MaxPushPlay == 4    \* the same, in one behaviour of SpecPlay
MaxPushSeq == 4     \* the same, in one behaviour of SpecSeq
MaxSeqs == 1        \* process tempi a voice of the mirror may hold in SpecSeq
PeriodFrames == 1   \* frames written per period (the program asks for 128)
MaxCurrent == 3     \* mixing stops once a TempoState has counted this many samples
Scale == 2          \* a position or velocity of 1.0 sample, in the units of the model
\* the values next_i64_range(0, 100) is let to yield: its least and its greatest
RandOutcomes == {0, 99}

----------------------------------------------------------------------------
(* Helpers for Vec and HashMap *)

At(s, i) == s[i + 1]

InRange(s, i) == i >= 0 /\ i < Len(s)

RemoveAt(s, i) == SubSeq(s, 1, i) \o SubSeq(s, i + 2, Len(s))

EmptyMap == [n \in {} |-> 0]

MapRemove(m, k) == [n \in (DOMAIN m) \ {k} |-> m[n]]

MapInsert(m, k, v) == [n \in (DOMAIN m) \cup {k} |-> IF n = k THEN v ELSE m[n]]

Range(s) == {s[i] : i \in DOMAIN s}

----------------------------------------------------------------------------
(* Startup data: the decoded tracks handed to run_blast.  Track names hold  *)
(* no '.', so a track name is never read as a dotted group.voice reference. *)

Tracks == << [name |-> "kick",  channels |-> 1, frames |-> 4],
             [name |-> "snare", channels |-> 2, frames |-> 3],
             [name |-> "hat",   channels |-> 1, frames |-> 2] >>

TrackNames == {Tracks[i].name : i \in DOMAIN Tracks}

\* EngineState::new: tracks.insert(file_name, TrackRepr::new(idx)), idx from enumerate()
TrackIdx(name) == (CHOOSE i \in DOMAIN Tracks : Tracks[i].name = name) - 1

----------------------------------------------------------------------------
(* Commands and the mirror's representations *)

(* A Command is a record tagged by ty.  Load, Group and Tc also carry the   *)
(* name the user gave (field name): the engine never reads it, it only     *)
(* labels the entity the command creates so that a mirror entry can be     *)
(* matched with its engine entity.                                         *)
NoCommand == [ty |-> "None"]

TempoReprNew(idx) ==
    [idx |-> idx, owned |-> TRUE, mode |-> "TBD", unit |-> "Samples", interval |-> 0]

TempoReprCloneOwner(other) == [other EXCEPT !.owned = FALSE]

TempoReprInit(tr, mode, unit, interval) ==
    [tr EXCEPT !.mode = mode, !.unit = unit, !.interval = interval]

VoiceReprNew(idx, tempo) ==
    [idx |-> idx, tempo |-> tempo, processes |-> EmptyMap, proc_tempi |-> EmptyMap]

GroupReprNew(idx, tempo, voices) == [idx |-> idx, tempo |-> tempo, voices |-> voices]

UnitOf(u) == CASE u = "s" -> "Samples" [] u = "m" -> "Millis" [] u = "b" -> "Bpm"
               [] OTHER -> "?"

\* the result of a try_* function: the mirror it leaves and Ok(cmd) or Err(err)
ROk(m, cmd) == [ok |-> TRUE, es |-> m, cmd |-> cmd, err |-> ""]

RErr(m, err) == [ok |-> FALSE, es |-> m, cmd |-> NoCommand, err |-> err]

(* A line is the record of its tokens: cmd, name, the -t argument split at  *)
(* ':' (t.u = "" when the flag is absent), the -v list split at ',' (empty  *)
(* when the flag is absent), the type flag and dotted path of start, pause, *)
(* resume and stop, and the value of velocity.                              *)
NoT == [u |-> "", x |-> 0, ref |-> ""]

TInt(u, x) == [u |-> u, x |-> x, ref |-> ""]

TRef(u, ref) == [u |-> u, x |-> 0, ref |-> ref]

\* the -p, -s and -c arguments of seq: p = -1 and empty lists when the flag is
\* absent; -s split at ',' and -c split at ',' into chance tokens
NoSeq == [p |-> -1, s |-> <<>>, c |-> <<>>]

Line(cmd, name, t, v, flag, path, val) ==
    [cmd |-> cmd, name |-> name, t |-> t, v |-> v, flag |-> flag, path |-> path, val |-> val,
     seq |-> NoSeq]

(* A chance token: "num" is a plain value, "_" the shorthand for 100,       *)
(* "a" is a:val, "at" is n:val with n in lo, "range" is lo-hi:val.          *)
CNum(val) == [k |-> "num", lo |-> 0, hi |-> 0, val |-> val]

CDefault == [k |-> "_", lo |-> 0, hi |-> 0, val |-> 100]

CAll(val) == [k |-> "a", lo |-> 0, hi |-> 0, val |-> val]

CAt(n, val) == [k |-> "at", lo |-> n, hi |-> n, val |-> val]

CRange(lo, hi, val) == [k |-> "range", lo |-> lo, hi |-> hi, val |-> val]

----------------------------------------------------------------------------
(* CmdProcessor: lookups *)

\* find_voice: args.split('.'); one part is a top-level voice, two parts group.voice
find_voice(m, path) ==
    IF Len(path) > 2 THEN [ok |-> FALSE, err |-> "Formatting", group |-> "", name |-> ""]
    ELSE IF Len(path) = 1
    THEN IF path[1] \in DOMAIN m.voices
         THEN [ok |-> TRUE, err |-> "", group |-> "", name |-> path[1]]
         ELSE [ok |-> FALSE, err |-> "NoVoice", group |-> "", name |-> path[1]]
    ELSE IF path[1] \in DOMAIN m.groups
         THEN IF path[2] \in DOMAIN m.groups[path[1]].voices
              THEN [ok |-> TRUE, err |-> "", group |-> path[1], name |-> path[2]]
              ELSE [ok |-> FALSE, err |-> "NoVoice", group |-> path[1], name |-> path[2]]
         ELSE [ok |-> FALSE, err |-> "NoItem", group |-> path[1], name |-> path[2]]

\* the VoiceRepr a successful find_voice refers to
VoiceAt(m, fv) ==
    IF fv.group = "" THEN m.voices[fv.name] ELSE m.groups[fv.group].voices[fv.name]

find_track(name) == name \in TrackNames

find_group(m, name) == name \in DOMAIN m.groups

find_tc(m, name) == name \in DOMAIN m.tempo_cons

\* get_idx: the Idx of the named voice, group or tempo context
get_idx(m, flag, path) ==
    CASE flag = "-v" ->
            LET fv == find_voice(m, path) IN
            IF fv.ok THEN [ok |-> TRUE, err |-> "", idx |-> [kind |-> "Voice", i |-> VoiceAt(m, fv).idx]]
            ELSE [ok |-> FALSE, err |-> fv.err, idx |-> [kind |-> "Voice", i |-> 0]]
      [] flag = "-g" ->
            IF Len(path) = 1 /\ find_group(m, path[1])
            THEN [ok |-> TRUE, err |-> "", idx |-> [kind |-> "Group", i |-> m.groups[path[1]].idx]]
            ELSE [ok |-> FALSE, err |-> "NoItem", idx |-> [kind |-> "Group", i |-> 0]]
      [] flag = "-t" ->
            IF Len(path) = 1 /\ find_tc(m, path[1])
            THEN [ok |-> TRUE, err |-> "", idx |-> [kind |-> "Tempo", i |-> m.tempo_cons[path[1]].idx]]
            ELSE [ok |-> FALSE, err |-> "NoItem", idx |-> [kind |-> "Tempo", i |-> 0]]
      [] OTHER -> [ok |-> FALSE, err |-> "MissingArg", idx |-> [kind |-> "Voice", i |-> 0]]

----------------------------------------------------------------------------
(* CmdProcessor: load, unload, tc *)

\* the -t argument of load: [ok, err, tr]
load_tempo(m, t) ==
    CASE t.u = "" -> [ok |-> TRUE, err |-> "", tr |-> TempoReprNew(0)]
      [] t.u = "c" ->
            IF find_tc(m, t.ref)
            THEN [ok |-> TRUE, err |-> "", tr |-> TempoReprCloneOwner(m.tempo_cons[t.ref])]
            ELSE [ok |-> FALSE, err |-> "NoItem", tr |-> TempoReprNew(0)]
      [] t.u = "g" ->
            IF find_group(m, t.ref)
            THEN [ok |-> TRUE, err |-> "", tr |-> TempoReprCloneOwner(m.groups[t.ref].tempo)]
            ELSE [ok |-> FALSE, err |-> "NoItem", tr |-> TempoReprNew(0)]
      [] t.u \in {"s", "m", "b"} ->
            [ok |-> TRUE, err |-> "",
             tr |-> TempoReprInit(TempoReprNew(0), "Voice", UnitOf(t.u), t.x)]
      [] OTHER -> [ok |-> FALSE, err |-> "InvalidArg", tr |-> TempoReprNew(0)]

\* try_load without the check that the voice already exists
try_load_NoDupCheck(m, line) ==
    IF ~find_track(line.name) THEN RErr(m, "NoItem")
    ELSE LET lt == load_tempo(m, line.t) IN
         IF ~lt.ok THEN RErr(m, lt.err)
         ELSE LET idx == Cardinality(DOMAIN m.voices) IN
              ROk([m EXCEPT !.voices = MapInsert(@, line.name, VoiceReprNew(idx, lt.tr))],
                  [ty |-> "Load", track_idx |-> TrackIdx(line.name), tempo_repr |-> lt.tr,
                   name |-> line.name])

try_load(m, line) ==
    IF ~find_track(line.name) THEN RErr(m, "NoItem")
    ELSE IF find_voice(m, <<line.name>>).ok THEN RErr(m, "AlreadyIs")
    ELSE LET lt == load_tempo(m, line.t) IN
         IF ~lt.ok THEN RErr(m, lt.err)
         ELSE LET idx == Cardinality(DOMAIN m.voices) IN
              ROk([m EXCEPT !.voices = MapInsert(@, line.name, VoiceReprNew(idx, lt.tr))],
                  [ty |-> "Load", track_idx |-> TrackIdx(line.name), tempo_repr |-> lt.tr,
                   name |-> line.name])

\* try_unload without the loop that shifts the later voices to the left
try_unload_NoShift(m, line) ==
    IF line.name \notin DOMAIN m.voices THEN RErr(m, "NoVoice")
    ELSE ROk([m EXCEPT !.voices = MapRemove(@, line.name)],
             [ty |-> "Unload", idx |-> m.voices[line.name].idx])

try_unload(m, line) ==
    IF line.name \notin DOMAIN m.voices THEN RErr(m, "NoVoice")
    ELSE LET idx == m.voices[line.name].idx
             rest == MapRemove(m.voices, line.name)
         IN  ROk([m EXCEPT !.voices =
                     [n \in DOMAIN rest |->
                        IF rest[n].idx > idx THEN [rest[n] EXCEPT !.idx = @ - 1] ELSE rest[n]]],
                 [ty |-> "Unload", idx |-> idx])

try_tc(m, line) ==
    IF line.t.u = "" THEN RErr(m, "MissingArg")
    ELSE IF line.t.u \notin {"s", "m", "b"} THEN RErr(m, "InvalidArg")
    ELSE LET tempo_state == TempoReprInit(TempoReprNew(Cardinality(DOMAIN m.tempo_cons)),
                                          "Context", UnitOf(line.t.u), line.t.x)
         IN  ROk([m EXCEPT !.tempo_cons = MapInsert(@, line.name, tempo_state)],
                 [ty |-> "Tc", tempo |-> tempo_state, name |-> line.name])

try_ctl(m, line, ty) ==
    LET gi == get_idx(m, line.flag, line.path) IN
    IF gi.ok THEN ROk(m, [ty |-> ty, idx |-> gi.idx]) ELSE RErr(m, gi.err)

try_velocity(m, line) ==
    LET gi == get_idx(m, "-v", line.path) IN
    IF gi.ok THEN ROk(m, [ty |-> "Velocity", idx |-> gi.idx.i, val |-> line.val])
    ELSE RErr(m, gi.err)

----------------------------------------------------------------------------
(* CmdProcessor: seq *)

\* the -t argument of seq, for the voice the sequencer is put on
seq_tempo(m, voice, t) ==
    LET default == TempoReprNew(Cardinality(DOMAIN voice.proc_tempi)) IN
    CASE t.u = "" -> [ok |-> TRUE, err |-> "", tr |-> default]
      [] t.u = "c" ->
            IF find_tc(m, t.ref)
            THEN [ok |-> TRUE, err |-> "", tr |-> TempoReprCloneOwner(m.tempo_cons[t.ref])]
            ELSE [ok |-> FALSE, err |-> "NoItem", tr |-> default]
      [] t.u = "g" ->
            IF find_group(m, t.ref)
            THEN [ok |-> TRUE, err |-> "", tr |-> TempoReprCloneOwner(m.groups[t.ref].tempo)]
            ELSE [ok |-> FALSE, err |-> "NoItem", tr |-> default]
      [] t.u = "v" ->
            \* t_arg.split(':') must give two parts: a bare `v` has one
            IF t.ref = "" THEN [ok |-> FALSE, err |-> "TempoFormatting", tr |-> default]
            ELSE [ok |-> TRUE, err |-> "", tr |-> TempoReprCloneOwner(voice.tempo)]
      [] t.u \in {"s", "m", "b"} ->
            [ok |-> TRUE, err |-> "", tr |-> TempoReprInit(default, "Process", UnitOf(t.u), t.x)]
      [] OTHER -> [ok |-> FALSE, err |-> "InvalidArg", tr |-> default]

\* one turn of `for i in {0..len}` over the chance tokens: [ok, chance]
chance_token(chance, steps, i, tok) ==
    CASE tok.k = "_" -> [ok |-> TRUE, chance |-> [chance EXCEPT ![i + 1] = 100]]
      [] tok.k = "a" -> [ok |-> TRUE, chance |-> [j \in DOMAIN chance |-> tok.val]]
      [] tok.k = "at" ->
            \* the loop over the steps returns the error in its first turn
            IF tok.lo = At(steps, 0)
            THEN [ok |-> TRUE, chance |-> [chance EXCEPT ![1] = tok.val]]
            ELSE [ok |-> FALSE, chance |-> chance]
      [] tok.k = "range" ->
            \* i1_str and i2_str are both indices.get(0)
            LET idx1 == tok.lo
                idx2 == tok.lo
                lower == IF idx1 > idx2 THEN idx2 ELSE idx1
                upper == IF idx1 > idx2 THEN idx1 ELSE idx2
            IN  IF lower > At(steps, Len(steps) - 1)
                THEN [ok |-> FALSE, chance |-> chance]
                ELSE [ok |-> TRUE,
                      chance |-> [j \in DOMAIN chance |->
                                    IF steps[j] >= lower /\ steps[j] <= upper
                                    THEN tok.val ELSE chance[j]]]
      [] OTHER -> [ok |-> TRUE, chance |-> [chance EXCEPT ![i + 1] = tok.val]]

\* `for i in {0..len}`, from turn i on: [ok, chance]
RECURSIVE chance_tokens(_, _, _, _, _)
chance_tokens(chance, steps, toks, i, len) ==
    IF i >= len THEN [ok |-> TRUE, chance |-> chance]
    ELSE LET r == chance_token(chance, steps, i, At(toks, i)) IN
         IF r.ok THEN chance_tokens(r.chance, steps, toks, i + 1, len) ELSE r

\* the mirror with the voice find_voice found replaced
SetVoiceAt(m, fv, voice) ==
    IF fv.group = "" THEN [m EXCEPT !.voices[fv.name] = voice]
    ELSE [m EXCEPT !.groups[fv.group].voices[fv.name] = voice]

try_seq(m, line) ==
    LET fv == find_voice(m, line.path) IN
    IF ~fv.ok THEN RErr(m, fv.err)
    ELSE
    LET voice == VoiceAt(m, fv)
        st == seq_tempo(m, voice, line.t)
        period == IF line.seq.p = -1 THEN 4 ELSE line.seq.p
        steps == line.seq.s
        resized == [j \in DOMAIN steps |-> 100]
        len == IF Len(line.seq.c) > Len(resized) THEN Len(resized) ELSE Len(line.seq.c)
        ch == chance_tokens(resized, steps, line.seq.c, 0, len)
        repr == [idx |-> Cardinality(DOMAIN voice.processes),
                 owner_idx |-> [kind |-> "Voice", i |-> voice.idx], tempo |-> st.tr]
        v1 == [voice EXCEPT !.processes = MapInsert(@, "seq", repr)]
        v2 == IF st.tr.mode = "Process"
              THEN [v1 EXCEPT !.proc_tempi =
                       MapInsert(@, Cardinality(DOMAIN voice.proc_tempi), st.tr)]
              ELSE v1
    IN  IF ~st.ok THEN RErr(m, st.err)
        ELSE IF line.seq.c # <<>> /\ Len(steps) < 1 THEN RErr(m, "Formatting")
        ELSE IF line.seq.c # <<>> /\ ~ch.ok THEN RErr(m, "Formatting")
        ELSE ROk(SetVoiceAt(m, fv, v2),
                 [ty |-> "Seq", idx |-> [kind |-> "Voice", i |-> voice.idx],
                  tempo |-> st.tr, period |-> period, steps |-> steps,
                  chance |-> ch.chance])

----------------------------------------------------------------------------
(* CmdProcessor: group *)

\* Vec::sort_by(|a, b| b.cmp(a)) on the first component: stable, descending
RECURSIVE InsertDesc(_, _)
InsertDesc(sorted, x) ==
    IF sorted = <<>> THEN <<x>>
    ELSE IF Head(sorted)[1] >= x[1] THEN <<Head(sorted)>> \o InsertDesc(Tail(sorted), x)
    ELSE <<x>> \o sorted

RECURSIVE SortDesc(_)
SortDesc(s) ==
    IF s = <<>> THEN <<>>
    ELSE InsertDesc(SortDesc(SubSeq(s, 1, Len(s) - 1)), s[Len(s)])

\* the orders in which a HashMap with key set S may be iterated
Perms(S) ==
    {p \in [1..Cardinality(S) -> S] : \A i, j \in 1..Cardinality(S) : i # j => p[i] # p[j]}

RECURSIVE SetToSeq(_)
SetToSeq(S) ==
    IF S = {} THEN <<>>
    ELSE LET x == CHOOSE y \in S : TRUE IN <<x>> \o SetToSeq(S \ {x})

\* the -t argument of group: [ok, err, tr]
group_tempo(m, line) ==
    LET t == line.t IN
    CASE t.u = "" ->
            [ok |-> TRUE, err |-> "", tr |-> TempoReprInit(TempoReprNew(0), "Group", "Bpm", 240)]
      [] t.u = "c" ->
            \* find_tc is called with the group's name, not with tc_name
            IF find_tc(m, line.name)
            THEN [ok |-> TRUE, err |-> "", tr |-> m.tempo_cons[line.name]]
            ELSE [ok |-> FALSE, err |-> "NoItem", tr |-> TempoReprNew(0)]
      [] t.u \in {"s", "m", "b"} ->
            [ok |-> TRUE, err |-> "",
             tr |-> TempoReprInit(TempoReprNew(0), "Group", UnitOf(t.u), t.x)]
      [] OTHER -> [ok |-> FALSE, err |-> "InvalidArg", tr |-> TempoReprNew(0)]

\* the loop over the -v names: each found voice leaves the top-level map at once
RECURSIVE group_take(_, _, _, _)
group_take(top, names, voices, v_ids) ==
    IF names = <<>> THEN [ok |-> TRUE, top |-> top, voices |-> voices, v_ids |-> v_ids]
    ELSE LET name == Head(names) IN
         IF name \in DOMAIN top
         THEN group_take(MapRemove(top, name), Tail(names),
                         MapInsert(voices, name,
                                   [top[name] EXCEPT !.idx = Cardinality(DOMAIN voices)]),
                         Append(v_ids, top[name].idx))
         ELSE [ok |-> FALSE, top |-> top, voices |-> voices, v_ids |-> v_ids]

\* the renumbering done for the highest removed index only
group_reindex_Once(top, sorted) ==
    IF sorted = <<>> THEN top
    ELSE [n \in DOMAIN top |->
            IF top[n].idx > Head(sorted)[1] THEN [top[n] EXCEPT !.idx = @ - 1] ELSE top[n]]

\* for removed_id in sorted { for v in voices { if v.idx > removed_id { v.idx -= 1 } } }
RECURSIVE group_reindex(_, _)
group_reindex(top, sorted) ==
    IF sorted = <<>> THEN top
    ELSE group_reindex([n \in DOMAIN top |->
                           IF top[n].idx > Head(sorted)[1]
                           THEN [top[n] EXCEPT !.idx = @ - 1] ELSE top[n]],
                       Tail(sorted))

\* the body of `for (_, voice) in &mut voices` for one voice
group_inherit(voice, tempo) ==
    IF voice.tempo.mode = "TBD"
    THEN [voice |-> [voice EXCEPT
                        !.tempo = TempoReprCloneOwner(tempo),
                        !.processes = [k \in DOMAIN voice.processes |->
                            IF voice.processes[k].tempo.mode = "TBD"
                            THEN [voice.processes[k] EXCEPT !.tempo = TempoReprCloneOwner(tempo)]
                            ELSE voice.processes[k]]],
          flag |-> TRUE,
          p_i |-> SetToSeq({voice.processes[k].idx : k \in DOMAIN voice.processes})]
    ELSE [voice |-> voice, flag |-> FALSE, p_i |-> <<>>]

(* try_group.  ord is the order in which `for (_, voice) in &mut voices`    *)
(* visits the group's HashMap: v_flags and p_ids are pushed in that order,  *)
(* v_ids in the order of the command line, and the three are zipped.        *)
try_group(m, line, ord) ==
    LET gt == group_tempo(m, line) IN
    IF ~gt.ok THEN RErr(m, gt.err)
    ELSE
    LET tk == group_take(m.voices, line.v, EmptyMap, <<>>) IN
    IF ~tk.ok THEN RErr([m EXCEPT !.voices = tk.top], "NoVoice")
    ELSE
    LET top == group_reindex(tk.top, SortDesc([i \in DOMAIN tk.v_ids |-> <<tk.v_ids[i]>>]))
        tempo == gt.tr
        inh == [n \in DOMAIN tk.voices |-> group_inherit(tk.voices[n], tempo)]
        voices == [n \in DOMAIN tk.voices |-> inh[n].voice]
        group == GroupReprNew(Cardinality(DOMAIN m.groups), tempo, voices)
        vs_fs_ps == SortDesc([i \in DOMAIN tk.v_ids |->
                                 <<tk.v_ids[i], inh[ord[i]].flag, inh[ord[i]].p_i>>])
    IN  ROk([m EXCEPT !.voices = top, !.groups = MapInsert(@, line.name, group)],
            [ty |-> "Group", tempo |-> tempo, vs_fs_ps |-> vs_fs_ps, name |-> line.name])

\* the iteration orders try_group may see for a line
Orders(m, line) ==
    IF line.cmd = "group" /\ group_take(m.voices, line.v, EmptyMap, <<>>).ok
    THEN Perms(Range(line.v))
    ELSE {<<>>}

\* CmdProcessor::parse
parse(m, line, ord) ==
    CASE line.cmd = "load" -> try_load(m, line)
      [] line.cmd = "start" -> try_ctl(m, line, "Start")
      [] line.cmd = "pause" -> try_ctl(m, line, "Pause")
      [] line.cmd = "resume" -> try_ctl(m, line, "Resume")
      [] line.cmd = "stop" -> try_ctl(m, line, "Stop")
      [] line.cmd = "unload" -> try_unload(m, line)
      [] line.cmd = "velocity" -> try_velocity(m, line)
      [] line.cmd = "group" -> try_group(m, line, ord)
      [] line.cmd = "tc" -> try_tc(m, line)
      [] line.cmd = "seq" -> try_seq(m, line)
      [] line.cmd = "quit" -> ROk(m, [ty |-> "Quit"])
      [] OTHER -> RErr(m, "NoCmd")

----------------------------------------------------------------------------
(* TempoState *)

SampleRate == 48000

\* TempoState::new
TempoStateNew ==
    [mode |-> "TBD", unit |-> "Samples", interval |-> SampleRate, active |-> FALSE,
     current |-> 0]

\* the f32 value +inf, written as a number above every interval and counter
\* the model computes
Infinity == SampleRate * SampleRate

\* convert_interval with the Bpm rule of a beat length given in seconds
convert_interval_BpmScaled(unit, interval) ==
    CASE unit = "Samples" -> interval
      [] unit = "Millis" -> (SampleRate * interval) \div 1000
      [] unit = "Bpm" -> (SampleRate * interval) \div 60

\* convert_interval: the interval in samples (exact for the intervals used
\* here); 60.0 / 0.0 is +inf in f32, and so is sample_rate times it
convert_interval(unit, interval) ==
    CASE unit = "Samples" -> interval
      [] unit = "Millis" -> (SampleRate * interval) \div 1000
      [] unit = "Bpm" -> IF interval = 0 THEN Infinity ELSE (SampleRate * 60) \div interval

\* TempoState::init
TempoStateInit(ts, mode, unit, interval) ==
    [ts EXCEPT !.mode = mode, !.unit = unit, !.interval = convert_interval(unit, interval)]

\* TempoState::reset
TempoStateReset(ts) == [ts EXCEPT !.current = 0]

\* TempoState::start, stop, pause, resume
TempoStateStart(ts) == [ts EXCEPT !.active = TRUE, !.current = 0]

TempoStateStop(ts) == [ts EXCEPT !.active = FALSE, !.current = 0]

TempoStatePause(ts) == [ts EXCEPT !.active = FALSE]

TempoStateResume(ts) == [ts EXCEPT !.active = TRUE]

----------------------------------------------------------------------------
(* Conductor.  conductor.heap maps the id of every live TempoState to its   *)
(* value; Rc::new takes the least unused id and a TempoState is dropped     *)
(* when no voice, group, process or context holds its id any more.          *)

NewId(heap) == CHOOSE i \in 1..(Cardinality(DOMAIN heap) + 1) :
                  i \notin DOMAIN heap /\ \A j \in 1..(i - 1) : j \in DOMAIN heap

VoiceRefs(v) == {v.tempo} \cup Range(v.proc_tempi) \cup {v.processes[i].tempo : i \in DOMAIN v.processes}

GroupRefs(g) == {g.tempo} \cup UNION {VoiceRefs(g.voices[i]) : i \in DOMAIN g.voices}
                  \cup {g.processes[i].tempo : i \in DOMAIN g.processes}

LiveIds(c) == UNION {VoiceRefs(c.voices[i]) : i \in DOMAIN c.voices}
                \cup UNION {GroupRefs(c.groups[i]) : i \in DOMAIN c.groups}
                \cup {c.tempo_cons[i].tempo : i \in DOMAIN c.tempo_cons}

\* drop of every Rc whose count reached zero
Collect(c) == [c EXCEPT !.heap = [i \in (DOMAIN c.heap) \cap LiveIds(c) |-> c.heap[i]]]

\* Conductor::tempo_from_repr: [heap, id, panic]
tempo_from_repr(c, tr) ==
    LET fresh == NewId(c.heap) IN
    IF tr.owned
    THEN [heap |-> MapInsert(c.heap, fresh,
                             TempoStateInit(TempoStateNew, tr.mode, tr.unit, tr.interval)),
          id |-> fresh, panic |-> FALSE]
    ELSE CASE tr.mode = "Voice" ->
                IF InRange(c.voices, tr.idx)
                THEN [heap |-> c.heap, id |-> At(c.voices, tr.idx).tempo, panic |-> FALSE]
                ELSE [heap |-> c.heap, id |-> 0, panic |-> TRUE]
           [] tr.mode = "Group" ->
                IF InRange(c.groups, tr.idx)
                THEN [heap |-> c.heap, id |-> At(c.groups, tr.idx).tempo, panic |-> FALSE]
                ELSE [heap |-> c.heap, id |-> 0, panic |-> TRUE]
           [] tr.mode = "Context" ->
                IF InRange(c.tempo_cons, tr.idx)
                THEN [heap |-> c.heap, id |-> At(c.tempo_cons, tr.idx).tempo, panic |-> FALSE]
                ELSE [heap |-> c.heap, id |-> 0, panic |-> TRUE]
           [] OTHER ->
                [heap |-> MapInsert(c.heap, fresh, TempoStateNew), id |-> fresh, panic |-> FALSE]

VoiceNew_EndIsLen(name, track_idx, tempo_state) ==
    [name |-> name, track |-> track_idx, active |-> FALSE, position |-> 0,
     end |-> At(Tracks, track_idx).frames, velocity |-> Scale, gain |-> 1,
     tempo |-> tempo_state, processes |-> <<>>, proc_tempi |-> <<>>]

\* Voice::new
VoiceNew(name, track_idx, tempo_state) ==
    [name |-> name, track |-> track_idx, active |-> FALSE, position |-> 0,
     end |-> At(Tracks, track_idx).frames - 1, velocity |-> Scale, gain |-> 1,
     tempo |-> tempo_state, processes |-> <<>>, proc_tempi |-> <<>>]

\* Process::reset (Seq::reset)
ProcessReset(p) == [p EXCEPT !.idx = 0]

\* `match state.velocity >= 0.0 { true => 0.0, false => state.end as f32 }`
RestPosition(v) == IF v.velocity >= 0 THEN 0 ELSE v.end * Scale

\* Voice::start: [voice, heap]
VoiceStart(v, heap) ==
    LET h1 == IF heap[v.tempo].mode \in {"Voice", "TBD"}
              THEN [heap EXCEPT ![v.tempo] = TempoStateStart(@)] ELSE heap
        h2 == [i \in DOMAIN h1 |-> IF i \in Range(v.proc_tempi) THEN TempoStateStart(h1[i]) ELSE h1[i]]
        v1 == [v EXCEPT !.active = TRUE,
                        !.processes = [i \in DOMAIN @ |-> ProcessReset(@[i])]]
    IN  [voice |-> [v1 EXCEPT !.position = RestPosition(v1)], heap |-> h2]

\* Voice::pause
VoicePause(v) == [v EXCEPT !.active = FALSE]

\* Voice::resume
VoiceResume(v) == [v EXCEPT !.active = TRUE]

VoiceStop_KeepsIdx(v, heap) ==
    LET h1 == IF heap[v.tempo].mode = "Voice"
              THEN [heap EXCEPT ![v.tempo] = TempoStateStop(@)] ELSE heap
        h2 == [i \in DOMAIN h1 |->
                 IF i \in Range(v.proc_tempi)
                 THEN TempoStateReset([h1[i] EXCEPT !.active = FALSE]) ELSE h1[i]]
        v1 == [v EXCEPT !.active = FALSE]
    IN  [voice |-> [v1 EXCEPT !.position = RestPosition(v1)], heap |-> h2]

\* Voice::stop: [voice, heap]
VoiceStop(v, heap) ==
    LET h1 == IF heap[v.tempo].mode = "Voice"
              THEN [heap EXCEPT ![v.tempo] = TempoStateStop(@)] ELSE heap
        h2 == [i \in DOMAIN h1 |->
                 IF i \in Range(v.proc_tempi)
                 THEN TempoStateReset([h1[i] EXCEPT !.active = FALSE]) ELSE h1[i]]
        v1 == [v EXCEPT !.active = FALSE,
                        !.processes = [i \in DOMAIN @ |-> ProcessReset(@[i])]]
    IN  [voice |-> [v1 EXCEPT !.position = RestPosition(v1)], heap |-> h2]

\* Group::new
GroupNew(name, voices, tempo) ==
    [name |-> name, active |-> FALSE, gain |-> 1, tempo |-> tempo, voices |-> voices,
     processes |-> <<>>]

\* `for voice in &mut self.voices { voice.start(); }`: [voices, heap]
RECURSIVE StartAll(_, _, _)
StartAll(voices, i, heap) ==
    IF i > Len(voices) THEN [voices |-> voices, heap |-> heap]
    ELSE LET r == VoiceStart(voices[i], heap) IN
         StartAll([voices EXCEPT ![i] = r.voice], i + 1, r.heap)

\* Group::start: [group, heap]
GroupStart(g, heap) ==
    LET h1 == IF heap[g.tempo].mode = "Group"
              THEN [heap EXCEPT ![g.tempo] = TempoStateReset([@ EXCEPT !.active = TRUE])]
              ELSE heap
        r == StartAll(g.voices, 1, h1)
    IN  [group |-> [g EXCEPT !.active = TRUE, !.voices = r.voices], heap |-> r.heap]

\* Group::pause
GroupPause(g) == [g EXCEPT !.active = FALSE]

\* Group::resume
GroupResume(g) == [g EXCEPT !.active = TRUE]

\* Group::stop: [group, heap]
GroupStop(g, heap) ==
    [group |-> [g EXCEPT !.active = FALSE,
                         !.voices = [i \in DOMAIN @ |-> [@[i] EXCEPT !.active = FALSE]]],
     heap |-> IF heap[g.tempo].mode = "Group"
              THEN [heap EXCEPT ![g.tempo] = TempoStateReset([@ EXCEPT !.active = FALSE])]
              ELSE heap]

----------------------------------------------------------------------------
(* Conductor: command application.  Every operation yields [c, panic, term]: *)
(* the conductor it leaves, whether an unwrap or an index panicked, and      *)
(* whether TERM_RECEIVED was set.                                            *)

Done(c) == [c |-> Collect(c), panic |-> FALSE, term |-> FALSE]

Panic(c) == [c |-> c, panic |-> TRUE, term |-> FALSE]

\* Conductor::load
load(c, args) ==
    LET t == tempo_from_repr(c, args.tempo_repr) IN
    IF t.panic THEN Panic(c)
    ELSE Done([c EXCEPT !.heap = t.heap,
                        !.voices = Append(@, VoiceNew(args.name, args.track_idx, t.id))])

\* Conductor::start
start(c, args) ==
    CASE args.idx.kind = "Voice" ->
            IF ~InRange(c.voices, args.idx.i) THEN Panic(c)
            ELSE LET r == VoiceStart(At(c.voices, args.idx.i), c.heap) IN
                 Done([c EXCEPT !.voices[args.idx.i + 1] = r.voice, !.heap = r.heap])
      [] args.idx.kind = "Group" ->
            IF ~InRange(c.groups, args.idx.i) THEN Panic(c)
            ELSE LET r == GroupStart(At(c.groups, args.idx.i), c.heap) IN
                 Done([c EXCEPT !.groups[args.idx.i + 1] = r.group, !.heap = r.heap])
      [] args.idx.kind = "Tempo" ->
            IF ~InRange(c.tempo_cons, args.idx.i) THEN Panic(c)
            ELSE Done([c EXCEPT !.heap[At(c.tempo_cons, args.idx.i).tempo] = TempoStateStart(@)])
      [] OTHER -> Done(c)

\* Conductor::pause
pause(c, args) ==
    CASE args.idx.kind = "Voice" ->
            IF ~InRange(c.voices, args.idx.i) THEN Panic(c)
            ELSE Done([c EXCEPT !.voices[args.idx.i + 1] = VoicePause(@)])
      [] args.idx.kind = "Group" ->
            IF ~InRange(c.groups, args.idx.i) THEN Panic(c)
            ELSE Done([c EXCEPT !.groups[args.idx.i + 1] = GroupPause(@)])
      [] args.idx.kind = "Tempo" ->
            IF ~InRange(c.tempo_cons, args.idx.i) THEN Panic(c)
            ELSE Done([c EXCEPT !.heap[At(c.tempo_cons, args.idx.i).tempo] = TempoStatePause(@)])
      [] OTHER -> Done(c)

\* Conductor::resume
resume(c, args) ==
    CASE args.idx.kind = "Voice" ->
            IF ~InRange(c.voices, args.idx.i) THEN Panic(c)
            ELSE Done([c EXCEPT !.voices[args.idx.i + 1] = VoiceResume(@)])
      [] args.idx.kind = "Group" ->
            IF ~InRange(c.groups, args.idx.i) THEN Panic(c)
            ELSE Done([c EXCEPT !.groups[args.idx.i + 1] = GroupResume(@)])
      [] args.idx.kind = "Tempo" ->
            IF ~InRange(c.tempo_cons, args.idx.i) THEN Panic(c)
            ELSE Done([c EXCEPT !.heap[At(c.tempo_cons, args.idx.i).tempo] = TempoStateResume(@)])
      [] OTHER -> Done(c)

\* Conductor::stop
stop(c, args) ==
    CASE args.idx.kind = "Voice" ->
            IF ~InRange(c.voices, args.idx.i) THEN Panic(c)
            ELSE LET r == VoiceStop(At(c.voices, args.idx.i), c.heap) IN
                 Done([c EXCEPT !.voices[args.idx.i + 1] = r.voice, !.heap = r.heap])
      [] args.idx.kind = "Group" ->
            IF ~InRange(c.groups, args.idx.i) THEN Panic(c)
            ELSE LET r == GroupStop(At(c.groups, args.idx.i), c.heap) IN
                 Done([c EXCEPT !.groups[args.idx.i + 1] = r.group, !.heap = r.heap])
      [] args.idx.kind = "Tempo" ->
            IF ~InRange(c.tempo_cons, args.idx.i) THEN Panic(c)
            ELSE Done([c EXCEPT !.heap[At(c.tempo_cons, args.idx.i).tempo] = TempoStateStop(@)])
      [] OTHER -> Done(c)

\* Conductor::unload
unload(c, args) ==
    IF ~InRange(c.voices, args.idx) THEN Panic(c)
    ELSE Done([c EXCEPT !.voices = RemoveAt(@, args.idx)])

\* Conductor::velocity
velocity(c, args) ==
    IF ~InRange(c.voices, args.idx) THEN Panic(c)
    ELSE Done([c EXCEPT !.voices[args.idx + 1].velocity = args.val])

\* the loop of Conductor::group over vs_fs_ps: [top, voices, panic]
RECURSIVE group_move(_, _, _, _)
group_move(top, voices, items, tempo) ==
    IF items = <<>> THEN [top |-> top, voices |-> voices, panic |-> FALSE]
    ELSE LET idx == Head(items)[1]
             update_tempo == Head(items)[2]
             p_ids == Head(items)[3]
         IN
         IF ~InRange(top, idx) THEN [top |-> top, voices |-> voices, panic |-> TRUE]
         ELSE LET voice == At(top, idx) IN
              IF update_tempo /\ \E k \in DOMAIN p_ids : ~InRange(voice.processes, p_ids[k])
              THEN [top |-> top, voices |-> voices, panic |-> TRUE]
              ELSE LET moved ==
                         IF update_tempo
                         THEN [voice EXCEPT
                                 !.tempo = tempo,
                                 !.processes = [i \in DOMAIN @ |->
                                     IF (i - 1) \in Range(p_ids)
                                     THEN [@[i] EXCEPT !.tempo = tempo] ELSE @[i]]]
                         ELSE voice
                   IN  group_move(RemoveAt(top, idx), Append(voices, moved), Tail(items), tempo)

\* Conductor::group
group(c, args) ==
    LET t == tempo_from_repr(c, args.tempo) IN
    IF t.panic THEN Panic(c)
    ELSE LET r == group_move(c.voices, <<>>, args.vs_fs_ps, t.id) IN
         IF r.panic THEN Panic(c)
         ELSE Done([c EXCEPT !.heap = t.heap, !.voices = r.top,
                             !.groups = Append(@, GroupNew(args.name, r.voices, t.id))])

\* Conductor::tempo_context
tempo_context(c, args) ==
    LET t == tempo_from_repr(c, args.tempo) IN
    IF t.panic THEN Panic(c)
    ELSE Done([c EXCEPT !.heap = t.heap,
                        !.tempo_cons = Append(@, [name |-> args.name, tempo |-> t.id])])

\* Conductor::seq
seq(c, args) ==
    LET t == tempo_from_repr(c, args.tempo)
        p == [active |-> TRUE, tempo |-> t.id, period |-> args.period,
              steps |-> args.steps, chance |-> args.chance, idx |-> 0]
    IN
    IF t.panic THEN Panic(c)
    ELSE CASE args.idx.kind = "Voice" ->
                IF ~InRange(c.voices, args.idx.i) THEN Panic(c)
                ELSE Done([c EXCEPT
                       !.heap = t.heap,
                       !.voices[args.idx.i + 1].processes = Append(@, p),
                       !.voices[args.idx.i + 1].proc_tempi =
                           IF args.tempo.mode = "Process" THEN Append(@, t.id) ELSE @])
           [] args.idx.kind = "Group" ->
                IF ~InRange(c.groups, args.idx.i) THEN Panic(c)
                ELSE Done([c EXCEPT !.heap = t.heap,
                                    !.groups[args.idx.i + 1].processes = Append(@, p)])
           [] OTHER -> Done([c EXCEPT !.heap = t.heap])

\* Conductor::apply
apply(c, cmd) ==
    CASE cmd.ty = "Load" -> load(c, cmd)
      [] cmd.ty = "Start" -> start(c, cmd)
      [] cmd.ty = "Pause" -> pause(c, cmd)
      [] cmd.ty = "Resume" -> resume(c, cmd)
      [] cmd.ty = "Stop" -> stop(c, cmd)
      [] cmd.ty = "Unload" -> unload(c, cmd)
      [] cmd.ty = "Velocity" -> velocity(c, cmd)
      [] cmd.ty = "Group" -> group(c, cmd)
      [] cmd.ty = "Tc" -> tempo_context(c, cmd)
      [] cmd.ty = "Seq" -> seq(c, cmd)
      [] cmd.ty = "Quit" -> [c |-> c, panic |-> FALSE, term |-> TRUE]

----------------------------------------------------------------------------
(* Conductor: mixing.  A position or a velocity is a whole number of        *)
(* 1/Scale samples, so 1.0 is Scale and 0.5 is Scale \div 2.  The value a   *)
(* voice adds to a channel is kept as the indices it reads and the          *)
(* interpolation fraction: [i0, i1, frac], i1 = -1 without interpolation.   *)

\* main: the output has as many channels as the widest track
OutChannels == CHOOSE n \in {Tracks[i].channels : i \in DOMAIN Tracks} :
                  \A i \in DOMAIN Tracks : Tracks[i].channels <= n

\* TempoState::update(1.0)
TempoStateUpdate(ts) == [ts EXCEPT !.current = @ + 1]

\* `state.position as usize`: truncates, and a negative value saturates to 0
AsUsize(x) == IF x < 0 THEN 0 ELSE x \div Scale

\* f32::fract: the fractional part keeps the sign of the value
Fract(x) == IF x < 0 THEN -((-x) % Scale) ELSE x % Scale

\* the voice adds nothing to the channel
NoOut == [i0 |-> -1, i1 |-> -1, frac |-> 0]

\* `tempo.current() % state.period as f32 == state.steps[state.idx]`
SeqAtStep(ts, period, step) ==
    IF ts.interval = 0 \/ period = 0 THEN FALSE
    ELSE IF ts.interval < 0 THEN ts.current = 0 /\ step = 0
    ELSE /\ ts.current % ts.interval = 0
         /\ (ts.current \div ts.interval) % period = step

\* Seq::process with the step index advanced only when the voice is retriggered
SeqProcess_AdvanceOnHit(p, v, heap, rand) ==
    IF ~p.active \/ ~heap[p.tempo].active
    THEN [proc |-> p, voice |-> v, panic |-> FALSE]
    ELSE IF ~InRange(p.steps, p.idx)
    THEN [proc |-> p, voice |-> v, panic |-> TRUE]
    ELSE IF ~SeqAtStep(heap[p.tempo], p.period, At(p.steps, p.idx))
    THEN [proc |-> p, voice |-> v, panic |-> FALSE]
    ELSE IF ~InRange(p.chance, p.idx)
    THEN [proc |-> p, voice |-> v, panic |-> TRUE]
    ELSE IF rand < At(p.chance, p.idx)
    THEN [proc |-> [p EXCEPT !.idx = (@ + 1) % Len(p.steps)],
          voice |-> [v EXCEPT !.position = RestPosition(v)], panic |-> FALSE]
    ELSE [proc |-> p, voice |-> v, panic |-> FALSE]

SeqProcess_ChanceInclusive(p, v, heap, rand) ==
    IF ~p.active \/ ~heap[p.tempo].active
    THEN [proc |-> p, voice |-> v, panic |-> FALSE]
    ELSE IF ~InRange(p.steps, p.idx)
    THEN [proc |-> p, voice |-> v, panic |-> TRUE]
    ELSE IF ~SeqAtStep(heap[p.tempo], p.period, At(p.steps, p.idx))
    THEN [proc |-> p, voice |-> v, panic |-> FALSE]
    ELSE IF ~InRange(p.chance, p.idx)
    THEN [proc |-> p, voice |-> v, panic |-> TRUE]
    ELSE [proc |-> [p EXCEPT !.idx = (@ + 1) % Len(p.steps)],
          voice |-> IF rand <= At(p.chance, p.idx)
                    THEN [v EXCEPT !.position = RestPosition(v)] ELSE v,
          panic |-> FALSE]

\* Seq::process with `rand` the value next_i64_range(0, 100) yields:
\* [proc, voice, panic]
SeqProcess(p, v, heap, rand) ==
    IF ~p.active \/ ~heap[p.tempo].active
    THEN [proc |-> p, voice |-> v, panic |-> FALSE]
    ELSE IF ~InRange(p.steps, p.idx)
    THEN [proc |-> p, voice |-> v, panic |-> TRUE]
    ELSE IF ~SeqAtStep(heap[p.tempo], p.period, At(p.steps, p.idx))
    THEN [proc |-> p, voice |-> v, panic |-> FALSE]
    ELSE IF ~InRange(p.chance, p.idx)
    THEN [proc |-> p, voice |-> v, panic |-> TRUE]
    ELSE [proc |-> [p EXCEPT !.idx = (@ + 1) % Len(p.steps)],
          voice |-> IF rand < At(p.chance, p.idx)
                    THEN [v EXCEPT !.position = RestPosition(v)] ELSE v,
          panic |-> FALSE]

\* `for p in &mut self.processes { p.process(state) }`: [voice, panic]
RECURSIVE RunProcesses(_, _, _, _)
RunProcesses(v, i, heap, rand) ==
    LET After(r) ==
            IF r.panic THEN [voice |-> v, panic |-> TRUE]
            ELSE RunProcesses([r.voice EXCEPT !.processes[i] = r.proc], i + 1, heap, rand)
    IN  IF i > Len(v.processes) THEN [voice |-> v, panic |-> FALSE]
        ELSE After(SeqProcess(v.processes[i], v, heap, rand))

VoiceProcess_AnyMode(v, heap, ch, rand) ==
    LET channels == At(Tracks, v.track).channels
        len == At(Tracks, v.track).frames * channels
        routed == IF channels = 1 THEN (IF ch < 2 THEN 0 ELSE -1)
                  ELSE (IF ch >= channels THEN -1 ELSE ch)
        \* the part after the tempo updates: v1 and h2 are the voice and the
        \* TempoStates they leave, idx is `state.position as usize`
        Emit(v1, h2, idx, i0, i1) ==
            IF idx >= v1.end \/ routed = -1
            THEN [voice |-> v1, heap |-> h2, out |-> NoOut, panic |-> FALSE]
            ELSE IF i0 >= len
            THEN [voice |-> v1, heap |-> h2, out |-> [i0 |-> i0, i1 |-> -1, frac |-> 0],
                  panic |-> TRUE]
            ELSE IF v1.velocity # Scale /\ i1 >= len
            THEN [voice |-> v1, heap |-> h2,
                  out |-> [i0 |-> i0, i1 |-> i1, frac |-> Fract(v1.position)], panic |-> TRUE]
            ELSE [voice |-> IF routed = channels - 1
                            THEN [v1 EXCEPT !.position = @ + v1.velocity] ELSE v1,
                  heap |-> h2,
                  out |-> IF v1.velocity # Scale
                          THEN [i0 |-> i0, i1 |-> i1, frac |-> Fract(v1.position)]
                          ELSE [i0 |-> i0, i1 |-> -1, frac |-> 0],
                  panic |-> FALSE]
        Index(v1, h2, idx) ==
            Emit(v1, h2, idx, (idx * channels) + (routed % channels),
                 ((idx + 1) * channels) + (routed % channels))
        Tempi(v1, h1) ==
            Index(v1,
                  [i \in DOMAIN h1 |->
                     IF i \in Range(v.proc_tempi) THEN TempoStateUpdate(h1[i]) ELSE h1[i]],
                  AsUsize(v1.position))
        Own(rp) ==
            IF rp.panic THEN [voice |-> v, heap |-> heap, out |-> NoOut, panic |-> TRUE]
            ELSE Tempi(rp.voice, [heap EXCEPT ![v.tempo] = TempoStateUpdate(@)])
    IN  IF ~v.active THEN [voice |-> v, heap |-> heap, out |-> NoOut, panic |-> FALSE]
        ELSE Own(RunProcesses(v, 1, heap, rand))

\* Voice::process for output channel ch: [voice, heap, out, panic]
VoiceProcess(v, heap, ch, rand) ==
    LET channels == At(Tracks, v.track).channels
        len == At(Tracks, v.track).frames * channels
        routed == IF channels = 1 THEN (IF ch < 2 THEN 0 ELSE -1)
                  ELSE (IF ch >= channels THEN -1 ELSE ch)
        \* the part after the tempo updates: v1 and h2 are the voice and the
        \* TempoStates they leave, idx is `state.position as usize`
        Emit(v1, h2, idx, i0, i1) ==
            IF idx >= v1.end \/ routed = -1
            THEN [voice |-> v1, heap |-> h2, out |-> NoOut, panic |-> FALSE]
            ELSE IF i0 >= len
            THEN [voice |-> v1, heap |-> h2, out |-> [i0 |-> i0, i1 |-> -1, frac |-> 0],
                  panic |-> TRUE]
            ELSE IF v1.velocity # Scale /\ i1 >= len
            THEN [voice |-> v1, heap |-> h2,
                  out |-> [i0 |-> i0, i1 |-> i1, frac |-> Fract(v1.position)], panic |-> TRUE]
            ELSE [voice |-> IF routed = channels - 1
                            THEN [v1 EXCEPT !.position = @ + v1.velocity] ELSE v1,
                  heap |-> h2,
                  out |-> IF v1.velocity # Scale
                          THEN [i0 |-> i0, i1 |-> i1, frac |-> Fract(v1.position)]
                          ELSE [i0 |-> i0, i1 |-> -1, frac |-> 0],
                  panic |-> FALSE]
        Index(v1, h2, idx) ==
            Emit(v1, h2, idx, (idx * channels) + (routed % channels),
                 ((idx + 1) * channels) + (routed % channels))
        Tempi(v1, h1) ==
            Index(v1,
                  [i \in DOMAIN h1 |->
                     IF i \in Range(v.proc_tempi) THEN TempoStateUpdate(h1[i]) ELSE h1[i]],
                  AsUsize(v1.position))
        Own(rp) ==
            IF rp.panic THEN [voice |-> v, heap |-> heap, out |-> NoOut, panic |-> TRUE]
            ELSE Tempi(rp.voice,
                       IF heap[v.tempo].mode \in {"Voice", "TBD"}
                       THEN [heap EXCEPT ![v.tempo] = TempoStateUpdate(@)] ELSE heap)
    IN  IF ~v.active THEN [voice |-> v, heap |-> heap, out |-> NoOut, panic |-> FALSE]
        ELSE Own(RunProcesses(v, 1, heap, rand))

\* `for v in &mut voices { v.process(acc, frame, ch) }`: [voices, heap, panic]
RECURSIVE ProcessAll(_, _, _, _, _)
ProcessAll(voices, i, heap, ch, rand) ==
    LET After(r) ==
            IF r.panic THEN [voices |-> voices, heap |-> heap, panic |-> TRUE]
            ELSE ProcessAll([voices EXCEPT ![i] = r.voice], i + 1, r.heap, ch, rand)
    IN  IF i > Len(voices) THEN [voices |-> voices, heap |-> heap, panic |-> FALSE]
        ELSE After(VoiceProcess(voices[i], heap, ch, rand))

\* Group::process: [group, heap, panic]
GroupProcess(g, heap, ch, rand) ==
    LET After(r) ==
            [group |-> [g EXCEPT !.voices = r.voices],
             heap |-> IF ~r.panic /\ r.heap[g.tempo].mode = "Group"
                      THEN [r.heap EXCEPT ![g.tempo] = TempoStateUpdate(@)] ELSE r.heap,
             panic |-> r.panic]
    IN  IF ~g.active THEN [group |-> g, heap |-> heap, panic |-> FALSE]
        ELSE After(ProcessAll(g.voices, 1, heap, ch, rand))

\* `for group in &mut self.groups { group.process(..) }`: [groups, heap, panic]
RECURSIVE ProcessGroups(_, _, _, _, _)
ProcessGroups(groups, i, heap, ch, rand) ==
    LET After(r) ==
            IF r.panic THEN [groups |-> groups, heap |-> heap, panic |-> TRUE]
            ELSE ProcessGroups([groups EXCEPT ![i] = r.group], i + 1, r.heap, ch, rand)
    IN  IF i > Len(groups) THEN [groups |-> groups, heap |-> heap, panic |-> FALSE]
        ELSE After(GroupProcess(groups[i], heap, ch, rand))

\* the body of `for ch in 0..self.out_channels` for one frame, channels ch..;
\* rands[ch] is what the generators yield during channel ch: [c, panic]
RECURSIVE coordinate_frame(_, _, _)
coordinate_frame(c, ch, rands) ==
    LET Groups(rv, rg) ==
            IF rv.panic \/ rg.panic THEN [c |-> c, panic |-> TRUE]
            ELSE coordinate_frame([c EXCEPT !.voices = rv.voices, !.groups = rg.groups,
                                           !.heap = rg.heap],
                                  ch + 1, rands)
        Voices(rv) == Groups(rv, ProcessGroups(c.groups, 1, rv.heap, ch, rands[ch]))
    IN  IF ch >= OutChannels THEN [c |-> c, panic |-> FALSE]
        ELSE Voices(ProcessAll(c.voices, 1, c.heap, ch, rands[ch]))

\* Conductor::coordinate for `frames` frames: [c, panic]
RECURSIVE coordinate(_, _, _)
coordinate(c, frames, rands) ==
    LET After(r) == IF r.panic THEN r ELSE coordinate(r.c, frames - 1, rands)
    IN  IF frames = 0 THEN [c |-> c, panic |-> FALSE]
        ELSE After(coordinate_frame(c, 0, rands))

----------------------------------------------------------------------------
(* The threads *)

Init ==
    /\ es = [voices |-> EmptyMap, groups |-> EmptyMap, tempo_cons |-> EmptyMap]
    /\ conductor = [voices |-> <<>>, groups |-> <<>>, tempo_cons |-> <<>>, heap |-> EmptyMap]
    /\ buf = [i \in 0..(QueueCap - 1) |-> NoCommand]
    /\ head = 0
    /\ tail = 0
    /\ p_pc = "idle"
    /\ p_cmd = NoCommand
    /\ p_head = 0
    /\ p_tail = 0
    /\ c_pc = "top"
    /\ c_head = 0
    /\ c_tail = 0
    /\ c_cmd = NoCommand
    /\ term = FALSE
    /\ panicked = FALSE
    /\ pushed = <<>>
    /\ applied = <<>>
    /\ last = [ok |-> FALSE, err |-> "", push |-> "none"]
    /\ clean = TRUE

\* the process is alive: no panic hook has run and run_blast has not returned
Running == ~panicked /\ c_pc # "exit"

producer_vars == <<es, p_pc, p_cmd, p_head, p_tail, pushed, last, clean>>

consumer_vars == <<conductor, c_pc, c_head, c_tail, c_cmd, term, panicked, applied>>

(* REPL thread, Enter key: parse the line; on Ok call try_push *)
Enter_PushAlways(line) ==
    /\ Running
    /\ p_pc = "idle"
    /\ \E ord \in Orders(es, line) :
          LET r == parse(es, line, ord) IN
          /\ es' = r.es
          /\ p_cmd' = r.cmd
          /\ p_pc' = "push_read"
          /\ last' = [ok |-> r.ok, err |-> r.err, push |-> "trying"]
          /\ clean' = (clean /\ r.ok)
    /\ UNCHANGED <<p_head, p_tail, pushed, buf, head, tail>>
    /\ UNCHANGED consumer_vars

Enter(line) ==
    /\ Running
    /\ p_pc = "idle"
    /\ \E ord \in Orders(es, line) :
          LET r == parse(es, line, ord) IN
          /\ es' = r.es
          /\ p_cmd' = r.cmd
          /\ p_pc' = IF r.ok THEN "push_read" ELSE "idle"
          /\ last' = [ok |-> r.ok, err |-> r.err, push |-> IF r.ok THEN "trying" ELSE "none"]
          /\ clean' = (clean /\ r.ok)
    /\ UNCHANGED <<p_head, p_tail, pushed, buf, head, tail>>
    /\ UNCHANGED consumer_vars

\* try_push: the slot is written first and head is stored (Release) after it
PushStoreOrder_PublishFirst == <<"push_publish", "push_write">>

PushStoreOrder == <<"push_write", "push_publish">>

PushAfter(pc) == IF pc = PushStoreOrder[1] THEN PushStoreOrder[2] ELSE "idle"

\* the full test of try_push
IsFull_NoSentinel(h, t) == h % QueueCap = t

IsFull(h, t) == (h + 1) % QueueCap = t

(* try_push: load head and tail, return Err when the ring is full *)
PushRead ==
    /\ Running
    /\ p_pc = "push_read"
    /\ IF IsFull(head, tail)
       THEN /\ p_pc' = "idle"
            /\ p_cmd' = NoCommand
            /\ p_head' = 0
            /\ p_tail' = 0
            /\ last' = [last EXCEPT !.err = "QueueFull", !.push = "full"]
            /\ clean' = FALSE
       ELSE /\ p_pc' = PushStoreOrder[1]
            /\ p_head' = head
            /\ p_tail' = tail
            /\ UNCHANGED <<p_cmd, last, clean>>
    /\ UNCHANGED <<es, pushed, buf, head, tail>>
    /\ UNCHANGED consumer_vars

\* try_push: the slot buf[head] is assigned Some(cmd)
PushWrite_AtTail ==
    /\ Running
    /\ p_pc = "push_write"
    /\ buf' = [buf EXCEPT ![p_tail] = p_cmd]
    /\ p_pc' = PushAfter("push_write")
    /\ p_cmd' = IF PushAfter("push_write") = "idle" THEN NoCommand ELSE p_cmd
    /\ p_head' = IF PushAfter("push_write") = "idle" THEN 0 ELSE p_head
    /\ p_tail' = IF PushAfter("push_write") = "idle" THEN 0 ELSE p_tail
    /\ UNCHANGED <<es, pushed, last, clean, head, tail>>
    /\ UNCHANGED consumer_vars

PushWrite ==
    /\ Running
    /\ p_pc = "push_write"
    /\ buf' = [buf EXCEPT ![p_head] = p_cmd]
    /\ p_pc' = PushAfter("push_write")
    /\ p_cmd' = IF PushAfter("push_write") = "idle" THEN NoCommand ELSE p_cmd
    /\ p_head' = IF PushAfter("push_write") = "idle" THEN 0 ELSE p_head
    /\ p_tail' = IF PushAfter("push_write") = "idle" THEN 0 ELSE p_tail
    /\ UNCHANGED <<es, pushed, last, clean, head, tail>>
    /\ UNCHANGED consumer_vars

(* try_push: self.head.store((head + 1) % self.cap, Release); Ok(()) *)
PushPublish ==
    /\ Running
    /\ p_pc = "push_publish"
    /\ head' = (p_head + 1) % QueueCap
    /\ pushed' = Append(pushed, p_cmd)
    /\ p_pc' = PushAfter("push_publish")
    /\ p_cmd' = IF PushAfter("push_publish") = "idle" THEN NoCommand ELSE p_cmd
    /\ last' = [last EXCEPT !.push = "ok"]
    /\ p_head' = IF PushAfter("push_publish") = "idle" THEN 0 ELSE p_head
    /\ p_tail' = IF PushAfter("push_publish") = "idle" THEN 0 ELSE p_tail
    /\ UNCHANGED <<es, buf, tail, clean>>
    /\ UNCHANGED consumer_vars

\* the audio loop without the test of TERM_RECEIVED
LoopTop_NoBreak ==
    /\ Running
    /\ c_pc = "top"
    /\ c_pc' = "pop_read"
    /\ UNCHANGED <<conductor, c_head, c_tail, c_cmd, term, panicked, applied, buf, head, tail>>
    /\ UNCHANGED producer_vars

(* audio loop: if TERM_RECEIVED { break } *)
LoopTop ==
    /\ Running
    /\ c_pc = "top"
    /\ c_pc' = IF term THEN "exit" ELSE "pop_read"
    /\ UNCHANGED <<conductor, c_head, c_tail, c_cmd, term, panicked, applied, buf, head, tail>>
    /\ UNCHANGED producer_vars

(* try_pop: load tail and head, return None when they are equal *)
PopRead ==
    /\ Running
    /\ c_pc = "pop_read"
    /\ c_tail' = IF head = tail THEN 0 ELSE tail
    /\ c_head' = IF head = tail THEN 0 ELSE head
    /\ c_pc' = IF head = tail THEN "mix" ELSE "pop_take"
    /\ UNCHANGED <<conductor, c_cmd, term, panicked, applied, buf, head, tail>>
    /\ UNCHANGED producer_vars

\* try_pop: take() on the slot buf[tail]
PopTake ==
    /\ Running
    /\ c_pc = "pop_take"
    /\ c_cmd' = buf[c_tail]
    /\ buf' = [buf EXCEPT ![c_tail] = NoCommand]
    /\ c_pc' = "pop_publish"
    /\ UNCHANGED <<conductor, c_head, c_tail, term, panicked, applied, head, tail>>
    /\ UNCHANGED producer_vars

(* try_pop: self.tail.store((tail + 1) % self.cap, Release); the loop       *)
(* `while let Some(cmd) = queue.try_pop()` ends when the slot held None     *)
PopPublish_ApplyLater ==
    /\ Running
    /\ c_pc = "pop_publish"
    /\ tail' = (c_tail + 1) % QueueCap
    /\ c_pc' = "mix"
    /\ c_head' = 0
    /\ c_tail' = 0
    /\ UNCHANGED <<conductor, c_cmd, term, panicked, applied, buf, head>>
    /\ UNCHANGED producer_vars

PopPublish ==
    /\ Running
    /\ c_pc = "pop_publish"
    /\ tail' = (c_tail + 1) % QueueCap
    /\ c_pc' = IF c_cmd = NoCommand THEN "mix" ELSE "apply"
    /\ c_head' = 0
    /\ c_tail' = 0
    /\ UNCHANGED <<conductor, c_cmd, term, panicked, applied, buf, head>>
    /\ UNCHANGED producer_vars

(* conductor.apply(cmd) *)
ApplyCmd ==
    /\ Running
    /\ c_pc = "apply"
    /\ LET r == apply(conductor, c_cmd) IN
          /\ conductor' = r.c
          /\ panicked' = r.panic
          /\ term' = (term \/ r.term)
    /\ applied' = Append(applied, c_cmd)
    /\ c_cmd' = NoCommand
    /\ c_pc' = "pop_read"
    /\ UNCHANGED <<c_head, c_tail, buf, head, tail>>
    /\ UNCHANGED producer_vars

\* mixing is cut off once a TempoState or a reverse position has run far enough
MixBounded(c) ==
    /\ \A i \in DOMAIN c.heap : c.heap[i].current < MaxCurrent
    /\ \A i \in DOMAIN c.voices : c.voices[i].position > -(MaxCurrent * Scale)
    /\ \A i \in DOMAIN c.groups : \A j \in DOMAIN c.groups[i].voices :
          c.groups[i].voices[j].position > -(MaxCurrent * Scale)

(* the device has no free period: snd_pcm_wait, then `continue` *)
Wait ==
    /\ Running
    /\ c_pc = "mix"
    /\ c_pc' = "top"
    /\ UNCHANGED <<conductor, c_head, c_tail, c_cmd, term, panicked, applied, buf, head, tail>>
    /\ UNCHANGED producer_vars

(* the device has a free period: conductor.coordinate(areas_ptr, offset, frames) *)
Mix ==
    /\ Running
    /\ c_pc = "mix"
    /\ MixBounded(conductor)
    /\ \E rands \in [0..(OutChannels - 1) -> RandOutcomes] :
          LET Leaves(r) == conductor' = r.c /\ panicked' = r.panic
          IN  Leaves(coordinate(conductor, PeriodFrames, rands))
    /\ c_pc' = "top"
    /\ UNCHANGED <<c_head, c_tail, c_cmd, term, applied, buf, head, tail>>
    /\ UNCHANGED producer_vars

----------------------------------------------------------------------------
(* Input lines *)

LTc(name, u, x) == Line("tc", name, TInt(u, x), <<>>, "", <<>>, 0)

LLoad(name, t) == Line("load", name, t, <<>>, "", <<>>, 0)

LUnload(name) == Line("unload", name, NoT, <<>>, "", <<>>, 0)

LGroup(name, t, v) == Line("group", name, t, v, "", <<>>, 0)

LCtl(cmd, flag, path) == Line(cmd, "", NoT, <<>>, flag, path, 0)

LVelocity(path, val) == Line("velocity", "", NoT, <<>>, "", path, val)

LSeq(path, t, p, steps, chance) ==
    [Line("seq", "", t, <<>>, "", path, 0) EXCEPT !.seq = [p |-> p, s |-> steps, c |-> chance]]

LQuit == Line("quit", "", NoT, <<>>, "", <<>>, 0)

LBogus == Line("bogus", "", NoT, <<>>, "", <<>>, 0)

\* the lines typed at a queue that only carries tempo contexts and quit
LinesQ == {LTc("clock", "b", 120), LTc("swing", "m", 500), LQuit, LBogus}

EnterQ == Len(pushed) < MaxPush /\ \E line \in LinesQ : Enter(line)

NextQ ==
    \/ EnterQ
    \/ PushRead \/ PushWrite \/ PushPublish
    \/ PopRead \/ PopTake \/ PopPublish
    \/ LoopTop \/ ApplyCmd \/ Wait \/ Mix

SpecQ == Init /\ [][NextQ]_vars

(* the lines typed at the command plane: load (with and without a tempo of  *)
(* its own), unload, tc and group, among them lines that fail               *)
LinesSys ==
    { LLoad("kick", NoT), LLoad("snare", TInt("b", 60)), LLoad("nope", NoT),
      LUnload("kick"), LTc("clock", "b", 120),
      LGroup("band", TInt("b", 120), <<"kick", "snare">>),
      LGroup("band", TInt("b", 120), <<"kick", "nope">>) }

EnterSys == Len(pushed) < MaxPushSys /\ \E line \in LinesSys : Enter(line)

Next ==
    \/ EnterSys
    \/ PushRead \/ PushWrite \/ PushPublish
    \/ PopRead \/ PopTake \/ PopPublish
    \/ LoopTop \/ ApplyCmd \/ Wait \/ Mix

Spec == Init /\ [][Next]_vars

(* the lines typed at a session that plays: a top-level voice and a group   *)
(* are built, then started, paused, resumed and stopped                     *)
LinesCtl ==
    { LLoad("kick", NoT), LLoad("snare", NoT), LGroup("band", NoT, <<"snare">>),
      LLoad("hat", TInt("b", 60)), LCtl("start", "-v", <<"hat">>) }
      \cup {LCtl(cmd, "-v", <<"kick">>) : cmd \in {"start", "pause", "resume", "stop"}}
      \cup {LCtl(cmd, "-g", <<"band">>) : cmd \in {"start", "pause", "resume", "stop"}}

EnterCtl == Len(pushed) < MaxPushCtl /\ \E line \in LinesCtl : Enter(line)

NextCtl ==
    \/ EnterCtl
    \/ PushRead \/ PushWrite \/ PushPublish
    \/ PopRead \/ PopTake \/ PopPublish
    \/ LoopTop \/ ApplyCmd \/ Wait \/ Mix

SpecCtl == Init /\ [][NextCtl]_vars

(* the lines typed at a session that plays a mono and a stereo voice        *)
(* forwards, backwards and at half speed                                    *)
LinesPlay ==
    { LLoad("kick", NoT), LLoad("snare", NoT),
      LVelocity(<<"kick">>, Scale \div 2), LVelocity(<<"kick">>, -Scale),
      LVelocity(<<"snare">>, -Scale), LVelocity(<<"snare">>, 2 * Scale),
      LCtl("start", "-v", <<"kick">>), LCtl("start", "-v", <<"snare">>),
      LCtl("stop", "-v", <<"kick">>) }

EnterPlay == Len(pushed) < MaxPushPlay /\ \E line \in LinesPlay : Enter(line)

NextPlay ==
    \/ EnterPlay
    \/ PushRead \/ PushWrite \/ PushPublish
    \/ PopRead \/ PopTake \/ PopPublish
    \/ LoopTop \/ ApplyCmd \/ Wait \/ Mix

SpecPlay == Init /\ [][NextPlay]_vars

(* the lines typed at a session that puts a sequencer on a voice: with      *)
(* chance 0 on every step, with the default chance, and with a range token  *)
LinesSeq ==
    { LLoad("kick", NoT),
      LSeq(<<"kick">>, TInt("b", 120), 4, <<0, 1, 2, 3>>, <<CNum(0), CNum(0), CNum(0), CNum(0)>>),
      LSeq(<<"kick">>, TInt("s", 1), 2, <<0, 1>>, <<CNum(0), CNum(0)>>),
      LSeq(<<"kick">>, TInt("s", 1), 2, <<0, 1>>, <<>>),
      LSeq(<<"kick">>, NoT, -1, <<0, 1, 2, 3, 4, 5, 6, 7>>, <<CRange(2, 5, 50)>>),
      LVelocity(<<"kick">>, -Scale),
      LCtl("start", "-v", <<"kick">>), LCtl("stop", "-v", <<"kick">>) }

\* a seq line is typed while no voice of the mirror holds MaxSeqs process tempi
\* yet (a seq line the full queue turns down still grows the mirror)
SeqRoom == \A n \in DOMAIN es.voices : Cardinality(DOMAIN es.voices[n].proc_tempi) < MaxSeqs

EnterSeq ==
    /\ Len(pushed) < MaxPushSeq
    /\ \E line \in LinesSeq : (line.cmd = "seq" => SeqRoom) /\ Enter(line)

NextSeq ==
    \/ EnterSeq
    \/ PushRead \/ PushWrite \/ PushPublish
    \/ PopRead \/ PopTake \/ PopPublish
    \/ LoopTop \/ ApplyCmd \/ Wait \/ Mix

SpecSeq == Init /\ [][NextSeq]_vars

----------------------------------------------------------------------------
(* Properties of the queue *)

IsPrefix(a, b) == Len(a) <= Len(b) /\ \A i \in 1..Len(a) : a[i] = b[i]

\* the commands returned so far by successful try_pop calls
Popped == IF c_pc = "apply" THEN Append(applied, c_cmd) ELSE applied

\* commands pushed (head stored) and not yet popped (tail stored)
Live == Len(pushed) - Len(Popped)

(* C1: with one producer and one consumer, under every interleaving of      *)
(* their steps, the commands returned by successful try_pop calls form a    *)
(* prefix of the commands accepted by successful try_push calls: nothing    *)
(* is lost, duplicated or reordered.                                        *)
C1_Fifo == IsPrefix(Popped, pushed)

\* the ring has wrapped and distinct commands went through it
C1_Witness ==
    /\ Len(Popped) > QueueCap
    /\ \E i, j \in DOMAIN Popped : Popped[i] # Popped[j]

(* C2: try_push fails with QueueFull exactly when cap - 1 commands are live *)
(* at the moment it reads the indices and succeeds otherwise; the number of *)
(* live commands always lies in 0..cap-1, and head = tail exactly when the  *)
(* queue is empty.                                                          *)
C2_Capacity ==
    /\ [](Live >= 0 /\ Live <= QueueCap - 1 /\ ((head = tail) <=> (Live = 0)))
    /\ [][(p_pc = "push_read" /\ p_pc' # "push_read")
            => ((p_pc' = "idle") <=> (Live = QueueCap - 1))]_vars

\* a push has just been refused while cap - 1 commands are live
C2_Witness == p_pc = "idle" /\ last.push = "full" /\ Live = QueueCap - 1

(* C3: whenever try_pop has observed head != tail, the slot at tail holds   *)
(* the fully written command that was pushed there, so try_pop does not     *)
(* return an empty slot; and the producer never writes a slot whose command *)
(* the consumer has not yet taken.                                          *)
C3_SlotVisible ==
    /\ c_pc = "pop_take" => (buf[c_tail] # NoCommand /\ buf[c_tail] = pushed[Len(Popped) + 1])
    /\ c_pc = "pop_publish" => c_cmd # NoCommand
    /\ p_pc = "push_write" => buf[p_head] = NoCommand

\* the producer is about to write a slot while the consumer is about to take one
C3_Witness == c_pc = "pop_take" /\ p_pc = "push_write" /\ Len(applied) >= 1


----------------------------------------------------------------------------
(* The mirror and the engine *)

\* the producer is idle and every command it published has been applied
Drained == p_pc = "idle" /\ Len(applied) = Len(pushed) /\ ~panicked

Names(voices) == [i \in DOMAIN voices |-> voices[i].name]

Last(s) == s[Len(s)]

\* every VoiceRepr of the map mv has the position of the voice of its name in ev
VoicesMatch(mv, ev) ==
    \A n \in DOMAIN mv : InRange(ev, mv[n].idx) /\ At(ev, mv[n].idx).name = n

MirrorMatches(m, c) ==
    /\ VoicesMatch(m.voices, c.voices)
    /\ \A g \in DOMAIN m.groups :
          /\ InRange(c.groups, m.groups[g].idx)
          /\ At(c.groups, m.groups[g].idx).name = g
          /\ VoicesMatch(m.groups[g].voices, At(c.groups, m.groups[g].idx).voices)
    /\ \A t \in DOMAIN m.tempo_cons :
          /\ InRange(c.tempo_cons, m.tempo_cons[t].idx)
          /\ At(c.tempo_cons, m.tempo_cons[t].idx).name = t

(* C4: after any sequence of successful load, unload, group and tc commands, *)
(* once the queue is drained, every VoiceRepr (top-level or in a group),     *)
(* GroupRepr and context TempoRepr of the mirror has idx equal to the        *)
(* position of its entity in the engine's list.                              *)
C4_MirrorIdx == (Drained /\ clean) => MirrorMatches(es, conductor)

(* C5: commands are applied in the order of their successful pushes, one     *)
(* after the other, and when the audio loop turns to mixing a period every   *)
(* command published so far has been applied.                                *)
C5_ApplyOrder ==
    /\ [](IsPrefix(applied, pushed))
    /\ [][(c_pc # "mix" /\ c_pc' = "mix") => (applied = pushed /\ c_cmd' = NoCommand)]_vars

C5_Witness ==
    c_pc = "mix" /\ Len(applied) >= 2 /\ applied[1] # applied[2] /\ Len(pushed) > Len(applied)


(* C6: a line whose parse returns an error pushes nothing: try_push is       *)
(* entered only with the command of a parse that returned Ok, and a command  *)
(* is published only by the try_push that was entered with it.               *)
C6_NoPushOnError ==
    /\ [][(p_pc = "idle" /\ p_pc' # "idle") =>
            /\ last'.ok
            /\ p_pc' = "push_read"
            /\ \E line \in LinesSys : \E ord \in Orders(es, line) :
                  LET r == parse(es, line, ord) IN r.ok /\ p_cmd' = r.cmd /\ es' = r.es]_vars
    /\ [][(p_pc = "idle" /\ ~last'.ok /\ UNCHANGED consumer_vars) =>
            (p_pc' = "idle" /\ p_cmd' = NoCommand /\ pushed' = pushed /\ buf' = buf /\ head' = head)]_vars
    /\ [][pushed' # pushed => (p_pc # "idle" /\ pushed' = Append(pushed, p_cmd) /\ p_cmd # NoCommand)]_vars

C6_Witness ==
    /\ p_pc = "idle" /\ ~last.ok /\ last.err = "NoVoice" /\ last.push = "none"
    /\ Len(pushed) >= 1 /\ "kick" \notin DOMAIN es.voices

\* the group lines of the session and what parsing and applying one yields
GroupLines == {line \in LinesSys : line.cmd = "group"}

Keep(names, gone) ==
    LET Stays(n) == n \notin gone IN SelectSeq(names, Stays)

VoiceNamed(voices, n) == voices[CHOOSE i \in DOMAIN voices : voices[i].name = n]

(* C7: after `group g -t tempo -v n1,...,nk` is parsed and applied, the      *)
(* named voices are gone from the engine's top-level list, the new engine    *)
(* group holds exactly those voices in the order n1,...,nk, and the other    *)
(* top-level voices keep their relative order.                               *)
C7_GroupOrder ==
    (Drained /\ clean) =>
        \A line \in GroupLines : \A ord \in Orders(es, line) :
            LET r == parse(es, line, ord)
                a == apply(conductor, r.cmd)
            IN  r.ok =>
                  /\ ~a.panic
                  /\ Len(a.c.groups) = Len(conductor.groups) + 1
                  /\ Names(Last(a.c.groups).voices) = line.v
                  /\ \A i \in DOMAIN a.c.voices : a.c.voices[i].name \notin Range(line.v)
                  /\ Names(a.c.voices) = Keep(Names(conductor.voices), Range(line.v))

(* C8: when a group is formed, exactly the grouped voices whose tempo mode   *)
(* was TBD are rebound to the group's TempoState, in the mirror and in the   *)
(* engine alike, and every grouped voice that was loaded with a tempo of its *)
(* own or a referenced one keeps its TempoState, in whatever order the       *)
(* voices are listed.                                                        *)
C8_TbdRebound ==
    (Drained /\ clean) =>
        \A line \in GroupLines : \A ord \in Orders(es, line) :
            LET r == parse(es, line, ord)
                a == apply(conductor, r.cmd)
            IN  r.ok =>
                  /\ ~a.panic
                  /\ \A n \in Range(line.v) :
                        LET tbd == es.voices[n].tempo.mode = "TBD"
                            mg == r.es.groups[line.name]
                            eg == Last(a.c.groups)
                        IN  /\ mg.voices[n].tempo =
                                  IF tbd THEN TempoReprCloneOwner(mg.tempo) ELSE es.voices[n].tempo
                            /\ VoiceNamed(eg.voices, n).tempo =
                                  IF tbd THEN eg.tempo ELSE VoiceNamed(conductor.voices, n).tempo

\* no voice called n is held by the mirror or by the engine, grouped or not
NoVoiceNamed(n) ==
    /\ n \notin DOMAIN es.voices
    /\ \A g \in DOMAIN es.groups : n \notin DOMAIN es.groups[g].voices
    /\ n \notin Range(Names(conductor.voices))
    /\ \A i \in DOMAIN conductor.groups : n \notin Range(Names(conductor.groups[i].voices))

(* C9: from any reachable state in which no voice called name exists,        *)
(* `load name` followed by `unload name`, both parsed and applied, leaves    *)
(* the mirror's voice map and the engine's voice list as they were.          *)
C9_LoadUnload ==
    Drained =>
        \A n \in TrackNames : NoVoiceNamed(n) =>
            LET r1 == parse(es, LLoad(n, NoT), <<>>)
                a1 == apply(conductor, r1.cmd)
                r2 == parse(r1.es, LUnload(n), <<>>)
                a2 == apply(a1.c, r2.cmd)
            IN  /\ r1.ok /\ ~a1.panic
                /\ r2.ok /\ ~a2.panic
                /\ r2.es.voices = es.voices
                /\ a2.c.voices = conductor.voices

\* pause then resume of the entity at idx: the conductor they leave
PauseResume(c, idx) == resume(pause(c, [idx |-> idx]).c, [idx |-> idx]).c

(* C10: for every voice and every group, active or not, pause followed by    *)
(* resume leaves its active flag equal to the value it had before the pause. *)
C10_PauseResume ==
    /\ \A i \in DOMAIN conductor.voices :
          PauseResume(conductor, [kind |-> "Voice", i |-> i - 1]).voices[i].active
             = conductor.voices[i].active
    /\ \A i \in DOMAIN conductor.groups :
          PauseResume(conductor, [kind |-> "Group", i |-> i - 1]).groups[i].active
             = conductor.groups[i].active


----------------------------------------------------------------------------
(* Errors of the create commands *)

\* the load lines a user may type, with and without a tempo
LoadLines == {LLoad(n, t) : n \in TrackNames \cup {"nope"}, t \in {NoT, TInt("b", 60)}}

C20_CreateCollision ==
    \A line \in LinesSys :
        ((line.cmd = "tc" /\ find_tc(es, line.name))
           \/ (line.cmd = "group" /\ find_group(es, line.name))) =>
        \A ord \in Orders(es, line) :
            LET r == parse(es, line, ord) IN
            ~r.ok /\ r.err = "AlreadyIs" /\ r.es = es /\ r.cmd = NoCommand


----------------------------------------------------------------------------
(* Playback *)

\* what Voice::stop is to leave: inactive, at rest, every process at step 0
Stopped(v) ==
    /\ ~v.active
    /\ v.position = (IF v.velocity >= 0 THEN 0 ELSE v.end * Scale)
    /\ \A k \in DOMAIN v.processes : v.processes[k].idx = 0

(* C11: immediately after Stop is applied to a voice, the voice is inactive, *)
(* its position is 0 if its velocity is >= 0 and end otherwise, and every    *)
(* process attached to it has idx = 0: for the Stop commands the audio       *)
(* thread applies, and for a Stop of any voice in any state it can be in.    *)
C11_Stop ==
    /\ [][(c_pc = "apply" /\ c_pc' = "pop_read" /\ c_cmd.ty = "Stop"
           /\ c_cmd.idx.kind = "Voice" /\ InRange(conductor.voices, c_cmd.idx.i)) =>
             (~panicked' /\ Stopped(At(conductor'.voices, c_cmd.idx.i)))]_vars
    /\ [](\A i \in DOMAIN conductor.voices :
             LET r == stop(conductor, [idx |-> [kind |-> "Voice", i |-> i - 1]]) IN
             ~r.panic /\ Stopped(r.c.voices[i]))

\* a Stop was applied last, to a voice that carries a sequencer and that had
\* been started and mixed (its own tempo has counted samples)
C11_Witness ==
    /\ c_pc = "pop_read" /\ Len(applied) >= 3
    /\ applied[Len(applied)].ty = "Stop"
    /\ Len(conductor.voices) = 1
    /\ Len(conductor.voices[1].processes) >= 1
    /\ conductor.heap[conductor.voices[1].tempo].current > 0
    /\ Stopped(conductor.voices[1])


\* every voice of the engine, top-level or in a group
AllVoices(c) ==
    Range(c.voices) \cup UNION {Range(c.groups[i].voices) : i \in DOMAIN c.groups}

\* the calls of one voice's process during one frame of n output channels,
\* channels ch..: the sequence of their results, cut at a panic
RECURSIVE VoiceFrame(_, _, _, _, _)
VoiceFrame(v, heap, ch, n, rand) ==
    LET After(r) ==
            IF r.panic THEN <<r>> ELSE <<r>> \o VoiceFrame(r.voice, r.heap, ch + 1, n, rand)
    IN  IF ch >= n THEN <<>> ELSE After(VoiceProcess(v, heap, ch, rand))

\* the number of samples of the voice's track
SamplesLen(v) == At(Tracks, v.track).frames * At(Tracks, v.track).channels

\* the reads of one call of process lie in the track's samples
ReadsInRange(v, r) ==
    /\ ~r.panic
    /\ r.out # NoOut =>
          /\ 0 <= r.out.i0 /\ r.out.i0 < SamplesLen(v)
          /\ (v.velocity # Scale) => (0 <= r.out.i1 /\ r.out.i1 < SamplesLen(v))

(* C12: for every voice, at every velocity and every position it reaches     *)
(* through start, stop, velocity and mixing, and for every output channel of *)
(* a frame, the mixer reads only samples[i] with 0 <= i < len(samples), the  *)
(* second sample read for interpolation included.                            *)
C12_ReadsInRange ==
    \A v \in AllVoices(conductor) : \A rand \in RandOutcomes :
        LET f == VoiceFrame(v, conductor.heap, 0, OutChannels, rand) IN
        \A k \in DOMAIN f : ReadsInRange(v, f[k])

\* an active voice off unit speed whose interpolation reads the last sample
C12_Witness ==
    \E v \in AllVoices(conductor) :
        LET r == VoiceProcess(v, conductor.heap, 0, 0) IN
        /\ v.active /\ v.velocity # Scale /\ v.position > 0
        /\ r.out # NoOut /\ r.out.i1 = SamplesLen(v) - 1


\* the voice is active and its position selects a frame the mixer plays
Playing(v) == v.active /\ v.position >= 0 /\ AsUsize(v.position) < v.end

\* what a voice at frame idx adds from channel ch of its track
OutAt(v, idx, ch) ==
    IF v.velocity # Scale
    THEN [i0 |-> idx * At(Tracks, v.track).channels + ch,
          i1 |-> (idx + 1) * At(Tracks, v.track).channels + ch,
          frac |-> Fract(v.position)]
    ELSE [i0 |-> idx * At(Tracks, v.track).channels + ch, i1 |-> -1, frac |-> 0]

(* C13: within one output frame an active mono voice adds the same sample    *)
(* value to output channels 0 and 1 and nothing to a channel >= 2; an active *)
(* stereo voice adds its channel-0 sample once to output channel 0 and its   *)
(* channel-1 sample once to output channel 1, both taken at one position.    *)
C13_Routing ==
    \A v \in AllVoices(conductor) : \A rand \in RandOutcomes :
        Playing(v) =>
            LET f == VoiceFrame(v, conductor.heap, 0, OutChannels + 1, rand)
                idx == AsUsize(v.position)
            IN  /\ Len(f) = OutChannels + 1
                /\ \A k \in DOMAIN f : k > 2 => f[k].out = NoOut
                /\ At(Tracks, v.track).channels = 1 =>
                      (f[1].out = OutAt(v, idx, 0) /\ f[2].out = OutAt(v, idx, 0))
                /\ At(Tracks, v.track).channels = 2 =>
                      (f[1].out = OutAt(v, idx, 0) /\ f[2].out = OutAt(v, idx, 1))

(* C14: for an active voice whose position is in range, the position changes *)
(* by exactly velocity once per output frame, on the last output channel of  *)
(* the frame and on no channel before it.                                    *)
C14_AdvanceOnce ==
    \A v \in AllVoices(conductor) : \A rand \in RandOutcomes :
        Playing(v) =>
            LET f == VoiceFrame(v, conductor.heap, 0, OutChannels, rand) IN
            /\ Len(f) = OutChannels
            /\ \A k \in 1..(OutChannels - 1) : f[k].voice.position = v.position
            /\ f[OutChannels].voice.position = v.position + v.velocity

\* the commands applied so far are those of
\* `load snare; velocity snare -1.0; start -v snare`
ReverseApplied ==
    /\ Len(applied) = 3
    /\ applied[1].ty = "Load" /\ applied[1].name = "snare"
    /\ applied[2].ty = "Velocity" /\ applied[2].idx = 0 /\ applied[2].val = -Scale
    /\ applied[3].ty = "Start" /\ applied[3].idx = [kind |-> "Voice", i |-> 0]

(* C15: after `load snare; velocity snare -1.0; start -v snare` is applied   *)
(* the voice's position equals end, and every period mixed from then on      *)
(* (a step of the audio loop that lets the voice's tempo count samples)      *)
(* strictly decreases the position while it is above 0.                      *)
C15_Reverse ==
    /\ [](ReverseApplied => conductor.voices[1].position <= conductor.voices[1].end * Scale)
    /\ [][(c_pc = "apply" /\ c_pc' = "pop_read" /\ ReverseApplied') =>
             conductor'.voices[1].position = conductor'.voices[1].end * Scale]_vars
    /\ [][(ReverseApplied /\ c_pc = "mix" /\ c_pc' = "top" /\ conductor'.heap # conductor.heap
           /\ conductor.voices[1].position > 0) =>
             conductor'.voices[1].position < conductor.voices[1].position]_vars


----------------------------------------------------------------------------
(* Tempo ownership *)

\* the voice, once active, lets TempoState h count during some call of process
VoiceAdvances(v, heap, h) ==
    \E ch \in 0..(OutChannels - 1) : \E rand \in RandOutcomes :
        LET r == VoiceProcess([v EXCEPT !.active = TRUE], heap, ch, rand) IN
        ~r.panic /\ r.heap[h].current # heap[h].current

\* the group, once active, lets TempoState h count by itself (its voices aside)
GroupAdvances(g, heap, h) ==
    GroupProcess([g EXCEPT !.active = TRUE, !.voices = <<>>], heap, 0, 0).heap[h].current
        # heap[h].current

(* C16: a TempoState in Voice mode is advanced only by the one voice that    *)
(* owns it, never by a group or another voice; a voice whose tempo is in     *)
(* Group mode never advances it, only the group that owns it does.  Both for *)
(* what process can do in every state reached and for what mixing a period   *)
(* does.                                                                     *)
C16_TempoOwner ==
    /\ [](\A h \in DOMAIN conductor.heap :
             LET adv == {v \in AllVoices(conductor) : VoiceAdvances(v, conductor.heap, h)}
                 gadv == {g \in Range(conductor.groups) : GroupAdvances(g, conductor.heap, h)}
             IN  /\ conductor.heap[h].mode = "Voice" =>
                       (gadv = {} /\ Cardinality(adv) <= 1 /\ \A v \in adv : v.tempo = h)
                 /\ conductor.heap[h].mode = "Group" =>
                       (adv = {} /\ \A g \in gadv : g.tempo = h))
    /\ [][(c_pc = "mix" /\ c_pc' = "top") =>
             \A h \in DOMAIN conductor.heap :
                 (conductor'.heap[h].current # conductor.heap[h].current) =>
                     /\ conductor.heap[h].mode = "Voice" =>
                           \E v \in AllVoices(conductor) : v.active /\ v.tempo = h
                     /\ conductor.heap[h].mode = "Group" =>
                           \E g \in Range(conductor.groups) : g.active /\ g.tempo = h]_vars

\* an active group whose Group-mode tempo has counted samples while an active
\* voice of the group shares that tempo
C16_Witness ==
    \E g \in Range(conductor.groups) :
        /\ g.active
        /\ conductor.heap[g.tempo].mode = "Group"
        /\ conductor.heap[g.tempo].current > 0
        /\ \E v \in Range(g.voices) : v.active /\ v.tempo = g.tempo


----------------------------------------------------------------------------
(* Sequencer *)

\* the voice carries sequencers, and each has chance 0 at every step
AllChanceZero(v) ==
    /\ Len(v.processes) >= 1
    /\ \A k \in DOMAIN v.processes : \A j \in DOMAIN v.processes[k].chance :
          v.processes[k].chance[j] = 0

\* the commands applied so far are those of
\* `load kick; seq kick -t b:120 -p 4 -s 0,1,2,3 -c 0,0,0,0; start -v kick`
SeqZeroApplied ==
    /\ Len(applied) = 3
    /\ applied[1].ty = "Load" /\ applied[1].name = "kick"
    /\ applied[2].ty = "Seq" /\ applied[2].idx = [kind |-> "Voice", i |-> 0]
    /\ applied[2].tempo.unit = "Bpm" /\ applied[2].tempo.interval = 120
    /\ applied[2].period = 4 /\ applied[2].steps = <<0, 1, 2, 3>>
    /\ applied[2].chance = <<0, 0, 0, 0>>
    /\ applied[3].ty = "Start" /\ applied[3].idx = [kind |-> "Voice", i |-> 0]

(* C17: a sequencer whose chance is 0 for every step never retriggers its    *)
(* voice, whatever the generator yields: the processes of such a voice leave *)
(* every position it may be at alone, mixing a period never moves its        *)
(* position back, and after `load kick; seq kick -t b:120 -p 4 -s 0,1,2,3    *)
(* -c 0,0,0,0; start -v kick` no step moves the position back.               *)
C17_ChanceZero ==
    /\ [](\A v \in AllVoices(conductor) : AllChanceZero(v) =>
             \A rand \in RandOutcomes : \A pos \in 0..(v.end * Scale) :
                 LET r == RunProcesses([v EXCEPT !.position = pos], 1, conductor.heap, rand)
                 IN  ~r.panic /\ r.voice.position = pos)
    /\ [][(c_pc = "mix" /\ c_pc' = "top") =>
             \A i \in DOMAIN conductor.voices :
                 (AllChanceZero(conductor.voices[i]) /\ conductor.voices[i].velocity >= 0) =>
                     conductor'.voices[i].position >= conductor.voices[i].position]_vars
    /\ [][(SeqZeroApplied /\ SeqZeroApplied') =>
             conductor'.voices[1].position >= conductor.voices[1].position]_vars

\* the line of the claim was played: its first step came up (idx moved on)
\* and the position has run to the end of the track
C17_Witness ==
    /\ SeqZeroApplied
    /\ conductor.voices[1].active
    /\ conductor.voices[1].processes[1].idx = 1
    /\ conductor.voices[1].position >= conductor.voices[1].end * Scale


(* C18: a chance token lo-hi:value sets the chance to value for every step   *)
(* whose beat position lies in [lo, hi] and leaves the chance of every other *)
(* step as it was (100 after -s): for `-s 0,1,2,3,4,5,6,7 -c 2-5:50` the Seq *)
(* command carries chance = [100,100,50,50,50,50,100,100].                   *)
C18_RangeToken ==
    \A line \in LinesSeq :
        (/\ line.cmd = "seq" /\ Len(line.seq.c) = 1 /\ line.seq.c[1].k = "range"
         /\ find_voice(es, line.path).ok) =>
            LET r == parse(es, line, <<>>)
                tok == line.seq.c[1]
            IN  /\ r.ok
                /\ r.cmd.ty = "Seq"
                /\ r.cmd.chance = [j \in DOMAIN line.seq.s |->
                                     IF line.seq.s[j] >= tok.lo /\ line.seq.s[j] <= tok.hi
                                     THEN tok.val ELSE 100]


----------------------------------------------------------------------------
(* Dotted voice references *)

CtlCmds == {"start", "pause", "resume", "stop"}

\* the engine's voice called n inside the engine group called g
GroupedVoice(c, g, n) ==
    VoiceNamed(c.groups[CHOOSE i \in DOMAIN c.groups : c.groups[i].name = g].voices, n)

(* C21: a start, pause, resume, stop or velocity command whose voice is      *)
(* given as group.voice is accepted when that voice exists in that group,    *)
(* and when applied it acts on that voice inside that group of the engine    *)
(* (a start leaves it active, a velocity sets its velocity) and leaves every *)
(* top-level voice as it was.                                                *)
C21_DottedVoice ==
    (Drained /\ clean) =>
        \A g \in DOMAIN es.groups : \A n \in DOMAIN es.groups[g].voices :
            /\ \A cmd \in CtlCmds :
                  LET r == parse(es, LCtl(cmd, "-v", <<g, n>>), <<>>)
                      a == apply(conductor, r.cmd)
                  IN  /\ r.ok
                      /\ ~a.panic
                      /\ a.c.voices = conductor.voices
                      /\ (cmd = "start") => GroupedVoice(a.c, g, n).active
            /\ LET r == parse(es, LVelocity(<<g, n>>, -Scale), <<>>)
                   a == apply(conductor, r.cmd)
               IN  /\ r.ok
                   /\ ~a.panic
                   /\ a.c.voices = conductor.voices
                   /\ GroupedVoice(a.c, g, n).velocity = -Scale


----------------------------------------------------------------------------
(* Termination *)

(* handle_sigterm: TERM_RECEIVED.store(true, Relaxed), at any moment *)
Sigterm ==
    /\ Running
    /\ ~term
    /\ term' = TRUE
    /\ UNCHANGED <<conductor, c_pc, c_head, c_tail, c_cmd, panicked, applied, buf, head, tail>>
    /\ UNCHANGED producer_vars

\* the steps of the audio thread
AudioLoop ==
    \/ LoopTop
    \/ PopRead \/ PopTake \/ PopPublish
    \/ ApplyCmd \/ Wait \/ Mix

NextTerm ==
    \/ EnterQ
    \/ PushRead \/ PushWrite \/ PushPublish
    \/ PopRead \/ PopTake \/ PopPublish
    \/ LoopTop \/ ApplyCmd \/ Wait \/ Mix
    \/ Sigterm

\* the audio thread is a running thread: it takes a step whenever it can
SpecTerm == Init /\ [][NextTerm]_vars /\ WF_vars(AudioLoop)

(* C22: applying a quit command sets the termination flag (as a termination  *)
(* signal does); the audio loop that reads the flag set at the top of an     *)
(* iteration leaves the loop; and once the flag is set the audio loop        *)
(* eventually terminates.                                                    *)
C22_Terminates ==
    /\ [][(applied' # applied /\ Last(applied').ty = "Quit") => term']_vars
    /\ [][(term => term') /\ ((c_pc = "top" /\ term /\ c_pc' # "top") => c_pc' = "exit")]_vars
    /\ term ~> (c_pc = "exit")

\* the loop has ended after a quit was applied with a later command still queued
C22_Witness ==
    /\ c_pc = "exit"
    /\ term
    /\ applied # <<>> /\ Last(applied).ty = "Quit"
    /\ Len(pushed) > Len(applied)


----------------------------------------------------------------------------
(* Commands parsed while earlier commands are still queued *)

\* the commands published and not yet applied
Pending == SubSeq(pushed, Len(applied) + 1, Len(pushed))

\* the engine once every command of cmds has been applied in order
RECURSIVE ApplyAll(_, _)
ApplyAll(c, cmds) ==
    IF cmds = <<>> THEN c ELSE ApplyAll(apply(c, Head(cmds)).c, Tail(cmds))

\* the Idx that `start <flag> <path>` carries when parsed against the mirror m
IdxOf(m, flag, path) == parse(m, LCtl("start", flag, path), <<>>)

\* the names a command can use for entities at the top level of the mirror
\* resolve to the positions those entities have in the engine c
TopLevelResolves(m, c) ==
    /\ \A n \in DOMAIN m.voices :
          LET r == IdxOf(m, "-v", <<n>>) IN
          r.ok /\ InRange(c.voices, r.cmd.idx.i) /\ At(c.voices, r.cmd.idx.i).name = n
    /\ \A n \in TrackNames \ DOMAIN m.voices : ~IdxOf(m, "-v", <<n>>).ok
    /\ \A g \in DOMAIN m.groups :
          LET r == IdxOf(m, "-g", <<g>>) IN
          r.ok /\ InRange(c.groups, r.cmd.idx.i) /\ At(c.groups, r.cmd.idx.i).name = g
    /\ \A t \in DOMAIN m.tempo_cons :
          LET r == IdxOf(m, "-t", <<t>>) IN
          r.ok /\ InRange(c.tempo_cons, r.cmd.idx.i) /\ At(c.tempo_cons, r.cmd.idx.i).name = t

\* the same for the voices that were moved into a group
GroupedResolves(m, c) ==
    \A g \in DOMAIN m.groups : \A n \in DOMAIN m.groups[g].voices :
        LET r == IdxOf(m, "-v", <<g, n>>)
            eg == At(c.groups, m.groups[g].idx).voices
        IN  r.ok /\ InRange(eg, r.cmd.idx.i) /\ At(eg, r.cmd.idx.i).name = n

(* C23: the mirror is updated when a line is parsed, before its command is   *)
(* pushed: while commands are still queued, a command that names an entity   *)
(* those commands create, remove or move is validated against the engine as  *)
(* it will be once they are applied, and carries the index the entity has in *)
(* the engine at that moment.                                                *)
C23_PostApplyView ==
    (p_pc = "idle" /\ clean /\ ~panicked) =>
        /\ TopLevelResolves(es, ApplyAll(conductor, Pending))
        /\ GroupedResolves(es, ApplyAll(conductor, Pending))

\* the part of it that concerns top-level voices, groups and tempo contexts
TopLevelPostApply ==
    (p_pc = "idle" /\ clean /\ ~panicked) => TopLevelResolves(es, ApplyAll(conductor, Pending))


----------------------------------------------------------------------------
(* Index bookkeeping of group and unload *)

\* the -v lists a group line may carry: distinct names of top-level voices
GroupPicks(m) == UNION {Perms(S) : S \in (SUBSET DOMAIN m.voices) \ {{}}}

\* the first components of the payload are strictly descending
Descending(items) ==
    \A i, j \in DOMAIN items : i < j => items[i][1] > items[j][1]

----------------------------------------------------------------------------
(* Rejected lines *)

(* C26: whenever CmdProcessor::parse returns an error for a line, the mirror *)
(* (voices, groups, tempo contexts and every idx) is what it was before the  *)
(* line was parsed; in particular a group line that fails on a missing voice *)
(* name after earlier names were found leaves those earlier voices in the    *)
(* top-level mirror with their indices.                                      *)
C26_ErrorKeepsMirror ==
    \A line \in LinesSys : \A ord \in Orders(es, line) :
        LET r == parse(es, line, ord) IN
        ~r.ok => r.es = es


\* no two of the commands cmds create a tempo context of the same name
NoRepeat(cmds) ==
    \A i, j \in DOMAIN cmds :
        (i # j /\ cmds[i].ty = "Tc" /\ cmds[j].ty = "Tc") => cmds[i].name # cmds[j].name

(* C27: when try_push rejects an already parsed command with QueueFull, the  *)
(* mirror is left as it was before that command was parsed (the mirror after *)
(* the rejection is one from which parsing the line gives the rejected       *)
(* command and the mirror parse had left), so once the queue is drained the  *)
(* mirror is still index-coherent with the engine.                           *)
C27_QueueFullKeepsMirror ==
    /\ [][(p_pc = "push_read" /\ last'.push = "full") =>
            \E line \in LinesQ : \E ord \in Orders(es', line) :
                LET r == parse(es', line, ord) IN
                r.ok /\ r.cmd = p_cmd /\ r.es = es]_vars
    /\ []((Drained /\ NoRepeat(pushed)) => MirrorMatches(es, conductor))

\* the mirror is coherent when no push was rejected
CoherentWithoutQueueFull ==
    (Drained /\ NoRepeat(pushed) /\ clean) => MirrorMatches(es, conductor)

----------------------------------------------------------------------------
(* Indices at apply time *)

\* the lines that name an entity of the mirror m without a dotted reference
NamingLines(m) ==
    {LCtl(cmd, "-v", <<n>>) : cmd \in CtlCmds, n \in DOMAIN m.voices}
      \cup {LCtl(cmd, "-g", <<g>>) : cmd \in CtlCmds, g \in DOMAIN m.groups}
      \cup {LCtl(cmd, "-t", <<t>>) : cmd \in CtlCmds, t \in DOMAIN m.tempo_cons}
      \cup {LVelocity(<<n>>, Scale) : n \in DOMAIN m.voices}
      \cup {LUnload(n) : n \in DOMAIN m.voices}
      \cup {LGroup("duo", NoT, v) : v \in GroupPicks(m)}
      \cup {LLoad(n, TRef("c", t)) : n \in TrackNames, t \in DOMAIN m.tempo_cons}
      \cup {LLoad(n, TRef("g", g)) : n \in TrackNames, g \in DOMAIN m.groups}
      \cup {LSeq(<<n>>, t, 4, <<0>>, <<>>) :
               n \in DOMAIN m.voices,
               t \in {NoT, TRef("v", "x"), TInt("b", 120)}
                      \cup {TRef("c", x) : x \in DOMAIN m.tempo_cons}
                      \cup {TRef("g", x) : x \in DOMAIN m.groups}}

\* the lines that name a voice of m as group.voice
DottedLines(m) ==
    UNION {UNION {{LCtl("start", "-v", <<g, n>>), LVelocity(<<g, n>>, Scale),
                   LSeq(<<g, n>>, NoT, 4, <<0>>, <<>>)} : n \in DOMAIN m.groups[g].voices} :
              g \in DOMAIN m.groups}

\* every line of lines that parse accepts gives a command whose apply, after
\* the commands still queued, stays within the engine's lists
AppliesInRange(lines) ==
    \A line \in lines : \A ord \in Orders(es, line) :
        LET r == parse(es, line, ord) IN
        r.ok => ~apply(ApplyAll(conductor, Pending), r.cmd).panic

(* C28: every command the audio thread applies addresses entities that exist *)
(* at apply time: as long as every line typed was accepted (parsed Ok and    *)
(* pushed), each index a command carries is within the engine list it is     *)
(* used on, so Conductor::apply never indexes out of range, whatever         *)
(* accepted line comes next.                                                 *)
C28_ApplyInRange ==
    /\ [][(clean /\ applied' # applied) => ~panicked']_vars
    /\ []((p_pc = "idle" /\ clean /\ ~panicked) =>
            AppliesInRange(NamingLines(es) \cup DottedLines(es)))

\* the same for the lines without a dotted reference
UndottedInRange ==
    (p_pc = "idle" /\ clean /\ ~panicked) => AppliesInRange(NamingLines(es))


----------------------------------------------------------------------------
(* Tempo references *)

\* the TempoRepr tr refers to the context called t, and id is the TempoState
\* the engine holds for that context
SharesContext(tr, id, t) ==
    /\ tr.mode = "Context" /\ ~tr.owned /\ tr.idx = es.tempo_cons[t].idx
    /\ InRange(conductor.tempo_cons, tr.idx)
    /\ At(conductor.tempo_cons, tr.idx).name = t
    /\ id = At(conductor.tempo_cons, tr.idx).tempo

\* names under which no tempo context and no group was made
Unknown == {"nope"}

\* `load <n> -t c:<t>` and `seq <n> -t c:<t>` for every context t of the
\* mirror, and for a name that is no context
ContextInLoadSeq ==
    /\ \A t \in DOMAIN es.tempo_cons :
          /\ \A n \in TrackNames \ DOMAIN es.voices :
                LET r == parse(es, LLoad(n, TRef("c", t)), <<>>)
                    a == apply(conductor, r.cmd)
                IN  /\ r.ok /\ ~a.panic
                    /\ SharesContext(r.cmd.tempo_repr, Last(a.c.voices).tempo, t)
          /\ \A n \in DOMAIN es.voices :
                LET r == parse(es, LSeq(<<n>>, TRef("c", t), 4, <<0>>, <<>>), <<>>)
                    a == apply(conductor, r.cmd)
                IN  /\ r.ok /\ ~a.panic
                    /\ SharesContext(r.cmd.tempo,
                                     Last(At(a.c.voices, es.voices[n].idx).processes).tempo, t)
    /\ \A x \in Unknown \ DOMAIN es.tempo_cons :
          /\ \A n \in TrackNames \ DOMAIN es.voices :
                LET r == parse(es, LLoad(n, TRef("c", x)), <<>>) IN
                ~r.ok /\ r.err = "NoItem"
          /\ \A n \in DOMAIN es.voices :
                LET r == parse(es, LSeq(<<n>>, TRef("c", x), 4, <<0>>, <<>>), <<>>) IN
                ~r.ok /\ r.err = "NoItem"

\* the same for `group <g> -t c:<t> -v ...`
ContextInGroup ==
    \A g \in {"duo"} \cup DOMAIN es.tempo_cons : \A v \in GroupPicks(es) :
        /\ \A t \in DOMAIN es.tempo_cons :
              \A ord \in Orders(es, LGroup(g, TRef("c", t), v)) :
                 LET r == parse(es, LGroup(g, TRef("c", t), v), ord)
                     a == apply(conductor, r.cmd)
                 IN  /\ r.ok /\ ~a.panic
                     /\ SharesContext(r.cmd.tempo, Last(a.c.groups).tempo, t)
        /\ \A x \in Unknown \ DOMAIN es.tempo_cons :
              \A ord \in Orders(es, LGroup(g, TRef("c", x), v)) :
                 LET r == parse(es, LGroup(g, TRef("c", x), v), ord) IN
                 ~r.ok /\ r.err = "NoItem"

(* C29: in load, group and seq alike, a tempo spec c:<name> that names an    *)
(* existing context yields a TempoRepr with mode Context, owned = false and  *)
(* idx the index of that context, so that the engine binds the new voice,    *)
(* group or sequencer to the TempoState of the context called <name>; when   *)
(* no context <name> exists the line fails with NoItem.                      *)
C29_ContextRef ==
    (Drained /\ clean) => (ContextInLoadSeq /\ ContextInGroup)

\* the part of it that concerns load and seq
LoadSeqContextRef == (Drained /\ clean) => ContextInLoadSeq


\* the tempos a group line may carry: none (240 bpm by default) or its own
GroupTempi == {NoT, TInt("b", 60)}

\* after `group duo -t gt -v v`, parsed and applied, `load <n> -t g:duo` and
\* `seq <n> -t g:duo` give a non-owned TempoRepr that the engine resolves to
\* the TempoState of the group duo
GroupRefResolves(v, gt, ord) ==
    LET r1 == parse(es, LGroup("duo", gt, v), ord)
        a1 == apply(conductor, r1.cmd)
        duo == Last(a1.c.groups).tempo
    IN  /\ r1.ok /\ ~a1.panic
        /\ \A n \in TrackNames \ DOMAIN r1.es.voices :
              LET r2 == parse(r1.es, LLoad(n, TRef("g", "duo")), <<>>)
                  a2 == apply(a1.c, r2.cmd)
              IN  /\ r2.ok /\ ~a2.panic
                  /\ ~r2.cmd.tempo_repr.owned
                  /\ Last(a2.c.voices).tempo = duo
        /\ \A n \in DOMAIN r1.es.voices :
              LET r2 == parse(r1.es, LSeq(<<n>>, TRef("g", "duo"), 4, <<0>>, <<>>), <<>>)
                  a2 == apply(a1.c, r2.cmd)
              IN  /\ r2.ok /\ ~a2.panic
                  /\ ~r2.cmd.tempo.owned
                  /\ Last(At(a2.c.voices, r1.es.voices[n].idx).processes).tempo = duo

(* C30: a tempo spec g:<name> in load or seq yields a non-owned TempoRepr     *)
(* that the engine resolves to the TempoState of the group called <name>,    *)
(* for every group index (not only the first group created) and whatever     *)
(* tempo that group was created with.                                        *)
C30_GroupRef ==
    (Drained /\ clean) =>
        \A v \in GroupPicks(es) : \A gt \in GroupTempi :
            \A ord \in Orders(es, LGroup("duo", gt, v)) : GroupRefResolves(v, gt, ord)

\* the same when the group referred to is the first group made
FirstGroupRef ==
    (Drained /\ clean /\ conductor.groups = <<>>) =>
        \A v \in GroupPicks(es) : \A gt \in GroupTempi :
            \A ord \in Orders(es, LGroup("duo", gt, v)) : GroupRefResolves(v, gt, ord)


----------------------------------------------------------------------------
(* Sequencers: tempo and chance *)

\* `seq <n> -t <t>` parsed and applied to the top-level voice n: the line is
\* accepted and the new sequencer holds the TempoState of the voice itself
SeqSharesVoiceTempo(n, t) ==
    LET r == parse(es, LSeq(<<n>>, t, 4, <<0>>, <<>>), <<>>)
        a == apply(conductor, r.cmd)
        i == es.voices[n].idx
    IN  /\ r.ok /\ ~a.panic
        /\ Last(At(a.c.voices, i).processes).tempo = At(conductor.voices, i).tempo

(* C31: `seq <voice> -t v` is accepted and attaches a sequencer whose tempo  *)
(* is the same shared TempoState as the tempo of <voice> itself, for every   *)
(* voice index and every tempo mode of that voice.                           *)
C31_SeqVoiceTempo ==
    (Drained /\ clean) => \A n \in DOMAIN es.voices : SeqSharesVoiceTempo(n, TRef("v", ""))

\* the same for the form the parser accepts, `-t v:<anything>`
SeqVoiceTempoColon ==
    (Drained /\ clean) => \A n \in DOMAIN es.voices : SeqSharesVoiceTempo(n, TRef("v", "x"))

\* the same for a voice that sits at index 0 and was loaded with a tempo of
\* its own or with a reference to a context
SeqVoiceTempoFirst ==
    (Drained /\ clean) =>
        \A n \in DOMAIN es.voices :
            (es.voices[n].idx = 0 /\ es.voices[n].tempo.mode \in {"Voice", "Context"}) =>
                SeqSharesVoiceTempo(n, TRef("v", "x"))


\* the step lists and the beat positions an indexed chance token is tried on
StepLists == {<<0, 1, 2, 3>>, <<1, 3>>}

Beats == 0..4

(* C32: a chance token <step>:<value> sets the chance to value for the step  *)
(* whose beat position equals <step>, be it the first step or a later one,   *)
(* leaves every other chance as it was (100 after -s), and is rejected only  *)
(* when no step has that beat position.                                      *)
C32_IndexedToken ==
    \A n \in DOMAIN es.voices : \A steps \in StepLists : \A b \in Beats :
        LET r == parse(es, LSeq(<<n>>, NoT, 4, steps, <<CAt(b, 50)>>), <<>>) IN
        IF \E j \in DOMAIN steps : steps[j] = b
        THEN /\ r.ok
             /\ r.cmd.chance = [j \in DOMAIN steps |-> IF steps[j] = b THEN 50 ELSE 100]
        ELSE ~r.ok

\* the same for a token that names the first step of the list, or no step
IndexedTokenFirst ==
    \A n \in DOMAIN es.voices : \A steps \in StepLists : \A b \in Beats :
        LET r == parse(es, LSeq(<<n>>, NoT, 4, steps, <<CAt(b, 50)>>), <<>>) IN
        /\ (steps[1] = b) =>
              (r.ok /\ r.cmd.chance = [j \in DOMAIN steps |-> IF j = 1 THEN 50 ELSE 100])
        /\ (\A j \in DOMAIN steps : steps[j] # b) => ~r.ok


\* seq lines the parser accepts for the voice n: without -s, with -s, and with
\* fewer and more -c values than steps
SeqForms(n) ==
    { LSeq(<<n>>, TInt("s", 1), 4, <<>>, <<>>),
      LSeq(<<n>>, TInt("s", 1), 4, <<0, 1>>, <<>>),
      LSeq(<<n>>, TInt("s", 1), 4, <<0, 1>>, <<CNum(50)>>),
      LSeq(<<n>>, TInt("s", 1), 4, <<0, 1>>, <<CNum(50), CNum(50), CNum(50)>>) }

\* every sequencer of the voice v can read steps[idx] and chance[idx]
SeqsInRange(v) ==
    \A k \in DOMAIN v.processes :
        /\ v.processes[k].idx < Len(v.processes[k].steps)
        /\ Len(v.processes[k].chance) = Len(v.processes[k].steps)

\* the line is applied, its voice started and one frame mixed
SeqPlayed(n, line, rands) ==
    LET Mixed(c) == coordinate(c, PeriodFrames, rands)
        Started(c) ==
            Mixed(apply(c, [ty |-> "Start",
                            idx |-> [kind |-> "Voice", i |-> es.voices[n].idx]]).c)
        Applied(r) ==
            r.ok => (/\ SeqsInRange(At(apply(conductor, r.cmd).c.voices, es.voices[n].idx))
                     /\ ~Started(apply(conductor, r.cmd).c).panic)
    IN  Applied(parse(es, line, <<>>))

(* C33: for every seq command the parser accepts, with or without -s, the    *)
(* audio thread never indexes steps or chance out of range: each sequencer   *)
(* has idx < len(steps) and len(chance) = len(steps) whenever Seq::process   *)
(* reads steps[idx] or chance[idx].                                          *)
C33_SeqInRange ==
    (Drained /\ clean) =>
        \A n \in DOMAIN es.voices : \A line \in SeqForms(n) :
            \A rands \in [0..(OutChannels - 1) -> RandOutcomes] : SeqPlayed(n, line, rands)

\* the same for the seq lines that carry -s
SeqWithStepsInRange ==
    (Drained /\ clean) =>
        \A n \in DOMAIN es.voices : \A line \in SeqForms(n) :
            (line.seq.s # <<>>) =>
                \A rands \in [0..(OutChannels - 1) -> RandOutcomes] : SeqPlayed(n, line, rands)


\* integers the generator may draw from [0, 100)
SeqDraws == {0, 49, 50, 99}

\* what one call of Seq::process is to do with the sequencer p of the voice v
SeqStepsAsStated(p, v, heap, rand) ==
    LET r == SeqProcess(p, v, heap, rand)
        hit == /\ p.active /\ heap[p.tempo].active
               /\ SeqAtStep(heap[p.tempo], p.period, At(p.steps, p.idx))
    IN  /\ ~r.panic
        /\ IF hit
           THEN /\ r.proc = [p EXCEPT !.idx = (p.idx + 1) % Len(p.steps)]
                /\ r.voice = IF rand < At(p.chance, p.idx)
                             THEN [v EXCEPT !.position = IF v.velocity >= 0 THEN 0
                                                         ELSE v.end * Scale]
                             ELSE v
           ELSE r.proc = p /\ r.voice = v

----------------------------------------------------------------------------
(* Grouping a voice that has sequencers *)

\* `group duo -t gt -v n`, parsed and applied, for the top-level voice n whose
\* tempo is still to be decided: the engine hands the group's TempoState to
\* the processes the mirror holds with a TBD tempo, when sel is "tbd", or to
\* any process, when sel is "all", and to no other; the mirror rewrites the
\* tempo of a process exactly when the engine rebinds it
GroupRebinds(n, gt, sel) ==
    LET r == parse(es, LGroup("duo", gt, <<n>>), <<n>>)
        a == apply(conductor, r.cmd)
        before == At(conductor.voices, es.voices[n].idx)
        after == Last(a.c.groups).voices[1]
        duo == Last(a.c.groups).tempo
    IN  /\ r.ok /\ ~a.panic
        /\ after.tempo = duo
        /\ \A k \in DOMAIN es.voices[n].processes :
              LET pr == es.voices[n].processes[k]
                  now == r.es.groups["duo"].voices[n].processes[k]
              IN  /\ (sel = "tbd" => pr.tempo.mode = "TBD")
                     => /\ At(after.processes, pr.idx).tempo
                              = IF pr.tempo.mode = "TBD" THEN duo
                                ELSE At(before.processes, pr.idx).tempo
                        /\ (now.tempo # pr.tempo) = (pr.tempo.mode = "TBD")

\* the voices of the mirror that take the tempo of the group they join
Inheriting == {n \in DOMAIN es.voices : es.voices[n].tempo.mode = "TBD"}

(* C35: when a voice that inherits the group's tempo is grouped, the engine  *)
(* rebinds to the group's TempoState exactly those of its processes that the *)
(* mirror marks as referring to the voice's TBD tempo; a process that owns   *)
(* its Process-mode tempo or refers to a context keeps its TempoState, and   *)
(* the mirror's ProcRepr tempo agrees with the engine's binding for every    *)
(* process.                                                                  *)
C35_GroupRebinds ==
    (Drained /\ clean) =>
        \A n \in Inheriting : \A gt \in GroupTempi : GroupRebinds(n, gt, "all")

\* the same for the processes the mirror holds with a TBD tempo
TbdProcessesRebound ==
    (Drained /\ clean) =>
        \A n \in Inheriting : \A gt \in GroupTempi : GroupRebinds(n, gt, "tbd")


----------------------------------------------------------------------------
(* Tempo intervals *)

\* interval values a tempo spec may carry
TempoValues == {-120, -1, 0, 1, 120}

TempoUnits == {"s", "m", "b"}

\* the tempo spec t, given to tc, load, group and seq in the state reached:
\* wherever the line is accepted and applied, the TempoState made from it has
\* a positive interval
InitPositive(t) ==
    LET Interval(a, id) == ~a.panic /\ a.c.heap[id].interval > 0
        OfTc(r) == r.ok => LET a == apply(conductor, r.cmd)
                         IN  Interval(a, Last(a.c.tempo_cons).tempo)
        OfLoad(r) == r.ok => LET a == apply(conductor, r.cmd)
                           IN  Interval(a, Last(a.c.voices).tempo)
        OfGroup(r) == r.ok => LET a == apply(conductor, r.cmd)
                            IN  Interval(a, Last(a.c.groups).tempo)
        OfSeq(r, i) == r.ok => LET a == apply(conductor, r.cmd)
                             IN  Interval(a, Last(At(a.c.voices, i).processes).tempo)
    IN  /\ OfTc(parse(es, LTc("pulse", t.u, t.x), <<>>))
        /\ \A n \in TrackNames \ DOMAIN es.voices : OfLoad(parse(es, LLoad(n, t), <<>>))
        /\ \A v \in GroupPicks(es) : \A ord \in Orders(es, LGroup("duo", t, v)) :
              OfGroup(parse(es, LGroup("duo", t, v), ord))
        /\ \A n \in DOMAIN es.voices :
              OfSeq(parse(es, LSeq(<<n>>, t, 4, <<0>>, <<>>), <<>>), es.voices[n].idx)

(* C36: for every tempo spec the parser accepts in load, group, tc or seq    *)
(* (units s, m, b with any parsed interval value, 0 and negative values      *)
(* included), the TempoState the engine initialises from it has              *)
(* interval > 0.                                                             *)
C36_IntervalPositive ==
    (Drained /\ clean) =>
        \A u \in TempoUnits : \A x \in TempoValues : InitPositive(TInt(u, x))

\* the same for the interval values above 0
PositiveValueInitPositive ==
    (Drained /\ clean) =>
        \A u \in TempoUnits : \A x \in {y \in TempoValues : y > 0} : InitPositive(TInt(u, x))


\* TempoState::current, `self.current as f32 / self.interval`, for a positive
\* interval: the whole periods elapsed and the samples into the next one
TempoStateCurrent(ts) ==
    [whole |-> ts.current \div ts.interval, rest |-> ts.current % ts.interval]

\* n calls of TempoState::update(1.0), one after the other: the first half of
\* the calls, whose result is looked at so that it is computed before the
\* second half begins, then the rest (the counter is a u32 and never below 0)
RECURSIVE Advanced(_, _)
Advanced(ts, n) ==
    IF n = 0 THEN ts
    ELSE IF n = 1 THEN TempoStateUpdate(ts)
    ELSE LET half == Advanced(ts, n \div 2)
         IN  IF half.current >= 0 THEN Advanced(half, n - (n \div 2)) ELSE half

\* tempo specs whose interval f32 converts without rounding, and the samples
\* each is to give at 48000 samples a second
Conversions ==
    { <<TInt("s", 7), 7>>, <<TInt("s", 24000), 24000>>,
      <<TInt("m", 250), 12000>>, <<TInt("m", 500), 24000>>,
      <<TInt("b", 60), 48000>>, <<TInt("b", 120), 24000>>, <<TInt("b", 240), 12000>> }

\* `tc pulse <t>` parsed and applied in the state reached: the new context
\* holds a TempoState of the given interval
TcInterval(t, samples) ==
    LET r == parse(es, LTc("pulse", t.u, t.x), <<>>)
        a == apply(conductor, r.cmd)
    IN  /\ r.ok /\ ~a.panic
        /\ a.c.heap[Last(a.c.tempo_cons).tempo].interval = samples

\* `tc clock b:120` is the one command applied so far
ClockApplied ==
    /\ Len(applied) = 1 /\ applied[1].ty = "Tc" /\ applied[1].name = "clock"
    /\ Len(conductor.tempo_cons) = 1

(* C37: TempoState::init stores the interval in samples: Samples is the      *)
(* identity, Millis gives sample_rate * interval / 1000 and Bpm gives        *)
(* sample_rate * 60 / interval; at sample rate 48000, `tc clock b:120`       *)
(* yields interval = 24000 samples and the context reports one elapsed       *)
(* period after exactly 24000 one-sample advances.                           *)
C37_IntervalInSamples ==
    /\ Drained => \A c \in Conversions : TcInterval(c[1], c[2])
    /\ (ClockApplied /\ pushed = applied /\ p_pc = "idle" /\ c_pc = "top") =>
          LET ts == conductor.heap[conductor.tempo_cons[1].tempo]
              fresh == [ts EXCEPT !.current = 0]
          IN  /\ ts.interval = 24000
              /\ TempoStateCurrent(Advanced(fresh, 24000)) = [whole |-> 1, rest |-> 0]
              /\ TempoStateCurrent(Advanced(fresh, 23999)).whole = 0

\* the context of `tc clock b:120` is in the engine and the queue is drained
C37_Witness ==
    /\ ClockApplied /\ pushed = applied /\ p_pc = "idle" /\ c_pc = "top"
    /\ conductor.heap[conductor.tempo_cons[1].tempo].unit = "Bpm"
    /\ conductor.heap[conductor.tempo_cons[1].tempo].interval = 24000


----------------------------------------------------------------------------
(* The mixed sample *)

\* the i16 samples of the decoded tracks, interleaved by channel, in the order
\* of Tracks
TrackSamples ==
    << <<30000, -30000, 12000, 0>>,
       <<20000, -20000, -5000, 5000, 100, -100>>,
       <<7, -7>> >>

\* an f32 cast to i16 with `as`: the fraction is dropped and the value
\* saturates; x is the value times d
AsI16(x, d) ==
    LET t == IF x < 0 THEN -((-x) \div d) ELSE x \div d
    IN  IF t > 32767 THEN 32767 ELSE IF t < -32768 THEN -32768 ELSE t

\* `(sample * state.gain) as i16` for the reads out of the voice v, sample
\* being s0, or s0 * (1.0 - frac) + s1 * frac off unit speed
Contribution(v, out) ==
    LET s == At(TrackSamples, v.track)
        sample == IF v.velocity # Scale
                  THEN At(s, out.i0) * (Scale - out.frac) + At(s, out.i1) * out.frac
                  ELSE At(s, out.i0) * Scale
    IN  AsI16(sample * v.gain, Scale)

\* `*acc += x` on an i16: a sum out of range panics in a build with overflow
\* checks and wraps in a build without
AccAdd(acc, x) ==
    IF acc + x >= -32768 /\ acc + x <= 32767
    THEN {[val |-> acc + x, panic |-> FALSE]}
    ELSE {[val |-> ((acc + x + 32768) % 65536) - 32768, panic |-> FALSE],
          [val |-> acc, panic |-> TRUE]}

\* the sample left at the DMA target by `*sample_ptr = 0` and the additions
\* xs, one after the other: the outcomes a build can give
RECURSIVE Accumulate(_, _)
Accumulate(acc, xs) ==
    IF xs = <<>> THEN {[val |-> acc, panic |-> FALSE]}
    ELSE UNION {IF o.panic THEN {o} ELSE Accumulate(o.val, Tail(xs)) :
                    o \in AccAdd(acc, Head(xs))}

\* what `for voice in voices { voice.process(acc, f, ch) }` adds: the
\* contributions of the voices i.., in the order of the calls
RECURSIVE VoiceAdds(_, _, _, _, _)
VoiceAdds(voices, i, heap, ch, rand) ==
    LET After(r) ==
            IF r.panic THEN <<>>
            ELSE (IF r.out = NoOut THEN <<>> ELSE <<Contribution(voices[i], r.out)>>)
                     \o VoiceAdds(voices, i + 1, r.heap, ch, rand)
    IN  IF i > Len(voices) THEN <<>> ELSE After(VoiceProcess(voices[i], heap, ch, rand))

\* the same for `for group in groups { group.process(acc, f, ch) }`
RECURSIVE GroupAdds(_, _, _, _, _)
GroupAdds(groups, i, heap, ch, rand) ==
    IF i > Len(groups) THEN <<>>
    ELSE (IF groups[i].active THEN VoiceAdds(groups[i].voices, 1, heap, ch, rand) ELSE <<>>)
             \o GroupAdds(groups, i + 1, GroupProcess(groups[i], heap, ch, rand).heap, ch, rand)

\* everything added to output channel 0 of the frame the conductor c mixes next
FrameAdds(c, rand) ==
    VoiceAdds(c.voices, 1, c.heap, 0, rand)
        \o GroupAdds(c.groups, 1, ProcessAll(c.voices, 1, c.heap, 0, rand).heap, 0, rand)

RECURSIVE SumSeq(_)
SumSeq(xs) == IF xs = <<>> THEN 0 ELSE Head(xs) + SumSeq(Tail(xs))

\* the sample written is the sum of the additions xs, held to the i16 range
MixClamped(xs) ==
    \A o \in Accumulate(0, xs) : ~o.panic /\ o.val = AsI16(SumSeq(xs), 1)

(* C38: for every output sample, the value written to the DMA target after   *)
(* all active voices and groups have contributed is the sum of their         *)
(* sample * gain contributions clamped to the 16-bit signed range            *)
(* [-32768, 32767]; the accumulation never wraps around or overflows.        *)
C38_MixClamped ==
    ~panicked => \A rand \in RandOutcomes : MixClamped(FrameAdds(conductor, rand))

\* the same for a frame to which at most one voice adds
OneVoiceMixed ==
    ~panicked => \A rand \in RandOutcomes :
        Len(FrameAdds(conductor, rand)) <= 1 => MixClamped(FrameAdds(conductor, rand))


----------------------------------------------------------------------------
(* Tempo counters while mixing *)

\* the started TempoStates the conductor c has in use: those of its active
\* top-level voices, of its active groups and their active voices and of the
\* active sequencers of these voices, and its started tempo contexts
InUse(c) ==
    LET OfVoice(v) ==
            IF v.active
            THEN {v.tempo} \cup Range(v.proc_tempi)
                     \cup {v.processes[k].tempo : k \in {j \in DOMAIN v.processes :
                                                            v.processes[j].active}}
            ELSE {}
        OfGroup(g) ==
            IF g.active
            THEN {g.tempo} \cup UNION {OfVoice(g.voices[j]) : j \in DOMAIN g.voices}
            ELSE {}
        ids == UNION {OfVoice(c.voices[i]) : i \in DOMAIN c.voices}
                   \cup UNION {OfGroup(c.groups[i]) : i \in DOMAIN c.groups}
                   \cup {c.tempo_cons[i].tempo : i \in DOMAIN c.tempo_cons}
    IN  {h \in ids : c.heap[h].active}

\* mixing one frame lets every TempoState in use count n samples more
FrameCounts(c, rands, n) ==
    LET AfterFrame(r) ==
            /\ ~r.panic
            /\ \A h \in InUse(c) : r.c.heap[h].current = c.heap[h].current + n
    IN  AfterFrame(coordinate(c, 1, rands))

(* C39: while mixing, every TempoState in use by an active voice, active     *)
(* group or active sequencer (voice-owned, group-owned, process-owned or a   *)
(* started tempo context) has its sample counter advanced by exactly 1 per   *)
(* output frame, independent of the number of output channels; none is       *)
(* advanced more than once per frame and none is left unadvanced.            *)
C39_OncePerFrame ==
    ~panicked =>
        \A rands \in [0..(OutChannels - 1) -> RandOutcomes] : FrameCounts(conductor, rands, 1)

\* each is advanced once for every output channel of the frame
OncePerChannel ==
    ~panicked =>
        \A rands \in [0..(OutChannels - 1) -> RandOutcomes] :
            FrameCounts(conductor, rands, OutChannels)


----------------------------------------------------------------------------
(* Draining the queue *)

\* the command plane of Spec with an audio thread that is a running thread:
\* it takes a step whenever it can
SpecLive == Init /\ [][Next]_vars /\ WF_vars(AudioLoop)

\* the n-th command published was popped and conductor.apply returned from it
\* (a panic in apply leaves the loop at the call, with the command taken)
AppliedThrough(n) ==
    /\ Len(applied) >= n
    /\ ~(panicked /\ c_pc = "pop_read" /\ Len(applied) = n)

(* C40: under fair scheduling of the audio thread and while the termination  *)
(* flag is not set, every command that was successfully pushed is eventually *)
(* popped and applied; the audio loop drains the queue until try_pop returns *)
(* empty on each iteration before it mixes the next period.                  *)
C40_Drains ==
    /\ \A n \in 1..MaxPush : (Len(pushed) >= n) ~> (AppliedThrough(n) \/ term)
    /\ [][(c_pc # "mix" /\ c_pc' = "mix")
             => (c_pc = "pop_read" /\ head = tail /\ c_cmd = NoCommand)]_vars

\* the same as long as the audio thread has not panicked
DrainsUnlessPanicked ==
    /\ \A n \in 1..MaxPush :
          (Len(pushed) >= n) ~> (AppliedThrough(n) \/ term \/ panicked)
    /\ [][(c_pc # "mix" /\ c_pc' = "mix")
             => (c_pc = "pop_read" /\ head = tail /\ c_cmd = NoCommand)]_vars

====
